---- MODULE Spec2Model ----
(***************************************************************************)
(* Simulation and decision engine of the MACD + EMA + Bollinger strategy:  *)
(* BacktestEngine.run (src/src/backtest/engine.py) walking an enriched     *)
(* DataFrame bar by bar and consulting MacdEmaBbStrategy                   *)
(* (src/src/strategies/macd_ema_bb.py, src/src/strategies/base.py).        *)
(*                                                                         *)
(* Numbers.  Prices and indicator values are integers; a float NaN (the    *)
(* undefined head of a rolling series) is the value NaN, on which every    *)
(* comparison is false and through which arithmetic propagates.  Ratios    *)
(* (pnl_pct, equity, statistics) are exact fractions [n, d] in lowest      *)
(* terms.                                                                  *)
(*                                                                         *)
(* The DataFrame.  The engine reads row i of df in loop iteration i (and   *)
(* macd/signal of row i-1).  A row is drawn when the iteration reads it;   *)
(* a column the outcome of the iteration does not depend on is Unread.     *)
(* `row` holds row i-1 after the iteration of bar i-1.                     *)
(*                                                                         *)
(* Specifications.  Spec and SpecTwoRuns follow BacktestEngine.run;        *)
(* SpecBacktest follows run_backtest (indicators calculated with the       *)
(* periods of the config, run entered with the default max_lookback);      *)
(* SpecSignal and SpecDetect follow one call of generate_signal and of     *)
(* detect_qml_bull; SpecOptimizer follows GridSearchOptimizer.run          *)
(* (src/src/backtest/optimizer.py).                                        *)
(***************************************************************************)
EXTENDS Integers, Sequences, FiniteSets, TLC

VARIABLES
    pc,             \* "run": inside the for loop of BacktestEngine.run; "done": returned
    cfg,            \* StrategyConfig plus BacktestEngine.use_trailing
    max_lookback,   \* argument of BacktestEngine.run
    df,             \* the columns df["low"], df["high"] when the pattern detector reads them
    df_len,         \* len(df)
    i,              \* loop variable of BacktestEngine.run: index of the next bar
    row,            \* df.iloc[i-1] as read by the last iteration
    in_position,    \* local of run
    position,       \* local of run: None or the position dict
    pos,            \* local of run: the dict of the position last managed (line 124)
    trades,         \* local of run
    equity_curve,   \* local of run
    current_equity, \* local of run
    signal,         \* local of run: what generate_signal returned last (line 109);
                    \* None before the first call
    strategy,       \* MacdEmaBbStrategy object state: _last_qml_bull, _last_qml_bear
    result,         \* the BacktestResult returned by run, None before
    rerun,          \* a second execution of run on the same bars, its locals, strategy
                    \* state and result; None when one execution is followed
    call,           \* one call of a function on its own: its arguments and what it
                    \* returned; None while run is followed
    grid,           \* GridSearchOptimizer: min_trades, and for every combination of
                    \* param_grid what its evaluation does (raises, or the result)
    search,         \* locals of GridSearchOptimizer.run and what it returned or raised
    pruned          \* the same for run on the grid without the combinations that raise

vars == <<pc, cfg, max_lookback, df, df_len, i, row, in_position, position,
          pos, trades, equity_curve, current_equity, signal, strategy, result,
          rerun, call, grid, search, pruned>>

\* the variables of GridSearchOptimizer.run
optimizer_vars == <<grid, search, pruned>>

----------------------------------------------------------------------------
(* Bounds of the model *)

\* bars a run walks at most: len(df) <= max_lookback + MaxRun
MaxRun == 3

Prices == {1, 2, 3}
MacdVals == {-1, 0, 1}
SignalVals == {0}
EmaVals == {1, 3}
VolumeVals == {1, 2}
Lookbacks == {0, 1}
\* max_lookback of the runs with pattern gating: the first bar with three extrema behind it
QmlLookbacks == {6}

----------------------------------------------------------------------------
(* Python / numpy values *)

\* float('nan'): the undefined value of a rolling window that is not yet full
NaN == 0 - 1000
\* Python None where a float is expected (Optional[float])
None == 0 - 2000
\* Python None where an object is expected (Optional[Signal], Optional[Dict])
NoneObj == [none |-> TRUE]
\* a column of a row that the iteration did not read
Unread == 0 - 3000

IsNaN(x) == x = NaN

\* IEEE comparisons: false as soon as one side is NaN
FLt(a, b) == ~IsNaN(a) /\ ~IsNaN(b) /\ a < b
FLe(a, b) == ~IsNaN(a) /\ ~IsNaN(b) /\ a <= b
FGt(a, b) == ~IsNaN(a) /\ ~IsNaN(b) /\ a > b
FGe(a, b) == ~IsNaN(a) /\ ~IsNaN(b) /\ a >= b

\* IEEE arithmetic: NaN propagates
FAdd(a, b) == IF IsNaN(a) \/ IsNaN(b) THEN NaN ELSE a + b
FSub(a, b) == IF IsNaN(a) \/ IsNaN(b) THEN NaN ELSE a - b
FMul(a, b) == IF IsNaN(a) \/ IsNaN(b) THEN NaN ELSE a * b

\* builtin max(a, b) / min(a, b): the second argument wins only if it compares
\* strictly greater / smaller than the first
PyMax(a, b) == IF FGt(b, a) THEN b ELSE a
PyMin(a, b) == IF FLt(b, a) THEN b ELSE a

----------------------------------------------------------------------------
(* Exact fractions for the float ratios *)

Abs(x) == IF x < 0 THEN 0 - x ELSE x

RECURSIVE Gcd(_, _)
Gcd(a, b) == IF b = 0 THEN a ELSE Gcd(b, a % b)

\* n/d in lowest terms with a positive denominator (d # 0)
Frac(n, d) ==
    LET s == IF d < 0 THEN 0 - 1 ELSE 1
        g == Gcd(Abs(n), Abs(d))
    IN  [n |-> (s * n) \div g, d |-> (s * d) \div g]

RInt(k) == [n |-> k, d |-> 1]
RAdd(x, y) == Frac(x.n * y.d + y.n * x.d, x.d * y.d)
RSub(x, y) == Frac(x.n * y.d - y.n * x.d, x.d * y.d)
RMul(x, y) == Frac(x.n * y.n, x.d * y.d)
RDiv(x, y) == Frac(x.n * y.d, x.d * y.n)
RLt(x, y) == x.n * y.d < y.n * x.d
RLe(x, y) == x.n * y.d <= y.n * x.d
RMax(x, y) == IF RLt(x, y) THEN y ELSE x

----------------------------------------------------------------------------
(* core/indicators.py: the predicates the strategy reads the rows through.   *)
(* cur is df.iloc[idx], prv is df.iloc[idx - 1].                             *)

check_macd_cross_up(cur, prv, idx) ==
    IF idx < 1 THEN FALSE
    ELSE FGt(cur.macd, cur.signal) /\ FLe(prv.macd, prv.signal)

check_macd_cross_down(cur, prv, idx) ==
    IF idx < 1 THEN FALSE
    ELSE FLt(cur.macd, cur.signal) /\ FGe(prv.macd, prv.signal)

\* check_price_above_ema with a non-strict comparison
check_price_above_ema_NotBelow(cur) == FGe(cur.close, cur.ema)

check_price_above_ema(cur) == FGt(cur.close, cur.ema)

check_price_below_ema(cur) == FLt(cur.close, cur.ema)

----------------------------------------------------------------------------
(* core/patterns.py.  A column is a sequence; bar idx (0-based, as in the    *)
(* source) is element idx + 1.                                               *)

At(prices, k) == prices[k + 1]

\* numpy take(..., mode='clip'): an index outside the array reads the nearest end
Clip(k, n) == IF k < 0 THEN 0 ELSE IF k > n - 1 THEN n - 1 ELSE k

\* argrelextrema with np.less_equal / np.greater_equal as comparator
argrelextrema_NotStrict(prices, comparator, order) ==
    LET n == Len(prices)
        cmp(a, b) == IF comparator = "less" THEN a <= b ELSE a >= b
    IN  {k \in 0..(n - 1) :
            \A shift \in 1..order :
                /\ cmp(At(prices, k), At(prices, Clip(k + shift, n)))
                /\ cmp(At(prices, k), At(prices, Clip(k - shift, n)))}

\* scipy.signal.argrelextrema(prices, np.less / np.greater, order=order)[0]:
\* the indices strictly below / above the elements up to `order` places away
\* on both sides, each side read with mode='clip'
argrelextrema(prices, comparator, order) ==
    LET n == Len(prices)
        cmp(a, b) == IF comparator = "less" THEN a < b ELSE a > b
    IN  {k \in 0..(n - 1) :
            \A shift \in 1..order :
                /\ cmp(At(prices, k), At(prices, Clip(k + shift, n)))
                /\ cmp(At(prices, k), At(prices, Clip(k - shift, n)))}

\* local_idx[-n]: the n-th greatest index of the ascending array local_idx
FromEnd(local_idx, n) ==
    CHOOSE x \in local_idx : Cardinality({y \in local_idx : y > x}) = n - 1

\* the structure test with a pattern as old as recency still accepted
qml_bull_structure_Inclusive(low1, low2, low3, idx3, idx, recency) ==
    IF low2 < low1 /\ low3 > low2 /\ idx - idx3 <= recency THEN low2 ELSE None

\* detect_qml_bull, lines 46-57: the structure test on the last three minima
qml_bull_structure(low1, low2, low3, idx3, idx, recency) ==
    IF low2 < low1 /\ low3 > low2 /\ idx - idx3 < recency THEN low2 ELSE None

\* detect_qml_bull, lines 40-51, on the prefix and its local minima
qml_bull_level(prices, local_min_idx, idx, recency) ==
    IF Cardinality(local_min_idx) < 3 THEN None
    ELSE qml_bull_structure(At(prices, FromEnd(local_min_idx, 3)),
                            At(prices, FromEnd(local_min_idx, 2)),
                            At(prices, FromEnd(local_min_idx, 1)),
                            FromEnd(local_min_idx, 1), idx, recency)

\* detect_qml_bull taking the local minima of the whole column that lie at
\* or before idx
detect_qml_bull_WholeColumn(df_low, idx, order, recency) ==
    qml_bull_level(df_low,
                   {k \in argrelextrema(df_low, "less", order) : k <= idx},
                   idx, recency)

\* detect_qml_bull(df, idx, order, recency), df_low the column df["low"]
detect_qml_bull(df_low, idx, order, recency) ==
    qml_bull_level(SubSeq(df_low, 1, idx + 1),
                   argrelextrema(SubSeq(df_low, 1, idx + 1), "less", order),
                   idx, recency)

\* the structure test with a third maximum as high as the second accepted
qml_bear_structure_LevelTop(high1, high2, high3, idx3, idx, recency) ==
    IF high2 > high1 /\ high3 <= high2 /\ idx - idx3 < recency THEN high2 ELSE None

\* detect_qml_bear, lines 94-105: the structure test on the last three maxima
qml_bear_structure(high1, high2, high3, idx3, idx, recency) ==
    IF high2 > high1 /\ high3 < high2 /\ idx - idx3 < recency THEN high2 ELSE None

\* detect_qml_bear, lines 88-99, on the prefix and its local maxima
qml_bear_level(prices, local_max_idx, idx, recency) ==
    IF Cardinality(local_max_idx) < 3 THEN None
    ELSE qml_bear_structure(At(prices, FromEnd(local_max_idx, 3)),
                            At(prices, FromEnd(local_max_idx, 2)),
                            At(prices, FromEnd(local_max_idx, 1)),
                            FromEnd(local_max_idx, 1), idx, recency)

\* detect_qml_bear(df, idx, order, recency), df_high the column df["high"]
detect_qml_bear(df_high, idx, order, recency) ==
    qml_bear_level(SubSeq(df_high, 1, idx + 1),
                   argrelextrema(SubSeq(df_high, 1, idx + 1), "greater", order),
                   idx, recency)

----------------------------------------------------------------------------
(* strategies/base.py and strategies/macd_ema_bb.py.  c is self.config, st   *)
(* the strategy object's mutable state; a method that assigns to self        *)
(* returns the new state beside its result.  d is the pair of columns        *)
(* df["low"], df["high"]; cur is df.iloc[idx] and prv is df.iloc[idx - 1].   *)

\* MacdEmaBbStrategy.__init__
NewStrategy == [last_qml_bull |-> None, last_qml_bear |-> None]

\* check_filters with the squeeze test inside the volume filter's branch
check_filters_SqueezeWithVolume(c, cur) ==
    IF c.use_vol_filter
    THEN ~FLe(cur.volume, FMul(cur.vol_avg, c.vol_filter_mult))
         /\ ~FLt(cur.bb_width, c.squeeze_threshold)
    ELSE TRUE

\* BaseStrategy.check_filters
check_filters(c, cur) ==
    IF c.use_vol_filter /\ FLe(cur.volume, FMul(cur.vol_avg, c.vol_filter_mult))
    THEN FALSE
    ELSE IF FLt(cur.bb_width, c.squeeze_threshold)
    THEN FALSE
    ELSE TRUE

\* check_long_signal that does not store the level it detected
check_long_signal_KeepsLevel(c, st, d, cur, prv, idx) ==
    IF ~check_macd_cross_up(cur, prv, idx) THEN [ok |-> FALSE, st |-> st]
    ELSE IF ~check_price_above_ema(cur) THEN [ok |-> FALSE, st |-> st]
    ELSE IF c.use_qml
    THEN LET qml_level == detect_qml_bull(d.low, idx, c.qml_order, c.qml_recency)
         IN  [ok |-> qml_level # None, st |-> st]
    ELSE [ok |-> TRUE, st |-> st]

\* MacdEmaBbStrategy.check_long_signal
check_long_signal(c, st, d, cur, prv, idx) ==
    IF ~check_macd_cross_up(cur, prv, idx) THEN [ok |-> FALSE, st |-> st]
    ELSE IF ~check_price_above_ema(cur) THEN [ok |-> FALSE, st |-> st]
    ELSE IF c.use_qml
    THEN LET qml_level == detect_qml_bull(d.low, idx, c.qml_order, c.qml_recency)
         IN  IF qml_level = None THEN [ok |-> FALSE, st |-> st]
             ELSE [ok |-> TRUE, st |-> [st EXCEPT !.last_qml_bull = qml_level]]
    ELSE [ok |-> TRUE, st |-> st]

\* check_short_signal that does not store the level it detected
check_short_signal_KeepsLevel(c, st, d, cur, prv, idx) ==
    IF ~check_macd_cross_down(cur, prv, idx) THEN [ok |-> FALSE, st |-> st]
    ELSE IF ~check_price_below_ema(cur) THEN [ok |-> FALSE, st |-> st]
    ELSE IF c.use_qml
    THEN LET qml_level == detect_qml_bear(d.high, idx, c.qml_order, c.qml_recency)
         IN  [ok |-> qml_level # None, st |-> st]
    ELSE [ok |-> TRUE, st |-> st]

\* MacdEmaBbStrategy.check_short_signal
check_short_signal(c, st, d, cur, prv, idx) ==
    IF ~check_macd_cross_down(cur, prv, idx) THEN [ok |-> FALSE, st |-> st]
    ELSE IF ~check_price_below_ema(cur) THEN [ok |-> FALSE, st |-> st]
    ELSE IF c.use_qml
    THEN LET qml_level == detect_qml_bear(d.high, idx, c.qml_order, c.qml_recency)
         IN  IF qml_level = None THEN [ok |-> FALSE, st |-> st]
             ELSE [ok |-> TRUE, st |-> [st EXCEPT !.last_qml_bear = qml_level]]
    ELSE [ok |-> TRUE, st |-> st]

\* calculate_sl_tp with the target one risk away, whatever rr_ratio is
calculate_sl_tp_UnitReward(c, st, entry_price, side, atr) ==
    LET atr_offset == FMul(atr, c.atr_sl_mult)
    IN  IF side = "long"
        THEN LET sl == IF c.use_qml_extreme_sl /\ st.last_qml_bull # None
                       THEN FSub(st.last_qml_bull, atr_offset)
                       ELSE FSub(entry_price, atr_offset)
             IN  [sl |-> sl, tp |-> FAdd(entry_price, FSub(entry_price, sl))]
        ELSE LET sl == IF c.use_qml_extreme_sl /\ st.last_qml_bear # None
                       THEN FAdd(st.last_qml_bear, atr_offset)
                       ELSE FAdd(entry_price, atr_offset)
             IN  [sl |-> sl, tp |-> FSub(entry_price, FSub(sl, entry_price))]

\* MacdEmaBbStrategy.calculate_sl_tp
calculate_sl_tp(c, st, entry_price, side, atr) ==
    LET atr_offset == FMul(atr, c.atr_sl_mult)
    IN  IF side = "long"
        THEN LET sl == IF c.use_qml_extreme_sl /\ st.last_qml_bull # None
                       THEN FSub(st.last_qml_bull, atr_offset)
                       ELSE FSub(entry_price, atr_offset)
                 risk == FSub(entry_price, sl)
                 tp == FAdd(entry_price, FMul(risk, c.rr_ratio))
             IN  [sl |-> sl, tp |-> tp]
        ELSE LET sl == IF c.use_qml_extreme_sl /\ st.last_qml_bear # None
                       THEN FAdd(st.last_qml_bear, atr_offset)
                       ELSE FAdd(entry_price, atr_offset)
                 risk == FSub(sl, entry_price)
                 tp == FSub(entry_price, FMul(risk, c.rr_ratio))
             IN  [sl |-> sl, tp |-> tp]

\* Signal(side, entry_price, stop_loss, take_profit), sltp the pair that
\* calculate_sl_tp returned
Signal(side, entry_price, sltp) ==
    [side |-> side, entry_price |-> entry_price,
     stop_loss |-> sltp.sl, take_profit |-> sltp.tp]

\* generate_signal, lines 200-210: short is what check_short_signal returned
short_signal(c, cur, short) ==
    IF short.ok
    THEN [signal |-> Signal("short", cur.close,
                            calculate_sl_tp(c, short.st, cur.close, "short", cur.atr)),
          st |-> short.st]
    ELSE [signal |-> NoneObj, st |-> short.st]

\* generate_signal, lines 190-210: long is what check_long_signal returned
long_signal(c, d, cur, prv, idx, long) ==
    IF long.ok
    THEN [signal |-> Signal("long", cur.close,
                            calculate_sl_tp(c, long.st, cur.close, "long", cur.atr)),
          st |-> long.st]
    ELSE short_signal(c, cur, check_short_signal(c, long.st, d, cur, prv, idx))

\* BaseStrategy.generate_signal (current_price is None in a backtest:
\* entry_price is df["close"].iloc[idx]; atr is df["atr"].iloc[idx])
generate_signal(c, st, d, cur, prv, idx) ==
    IF ~check_filters(c, cur) THEN [signal |-> NoneObj, st |-> st]
    ELSE long_signal(c, d, cur, prv, idx, check_long_signal(c, st, d, cur, prv, idx))

\* What check_exit_conditions returns: (should_exit, exit_price, exit_reason)
ExitTuple(should_exit, exit_price, exit_reason) ==
    [should_exit |-> should_exit, exit_price |-> exit_price,
     exit_reason |-> exit_reason]

\* the no-exit tuple with the exit flag raised
NoExit_Flagged == ExitTuple(TRUE, None, "")

\* the last return of check_exit_conditions: no condition holds
NoExit == ExitTuple(FALSE, None, "")

\* check_exit_conditions with the band touched only when strictly crossed
check_exit_conditions_StrictTouch(cur, prv, idx, position_side, entry_price, stop_loss, take_profit) ==
    LET high == cur.high
        low == cur.low
        close == cur.close
    IN  IF position_side = "long"
        THEN IF FLe(low, stop_loss) THEN ExitTuple(TRUE, stop_loss, "stop_loss")
             ELSE IF FGe(high, take_profit) THEN ExitTuple(TRUE, take_profit, "take_profit")
             ELSE IF check_macd_cross_down(cur, prv, idx) THEN ExitTuple(TRUE, close, "macd_reverse")
             ELSE IF FGt(high, cur.bb_upper) THEN ExitTuple(TRUE, cur.bb_upper, "bb_touch")
             ELSE ExitTuple(FALSE, None, "")
        ELSE IF FGe(high, stop_loss) THEN ExitTuple(TRUE, stop_loss, "stop_loss")
             ELSE IF FLe(low, take_profit) THEN ExitTuple(TRUE, take_profit, "take_profit")
             ELSE IF check_macd_cross_up(cur, prv, idx) THEN ExitTuple(TRUE, close, "macd_reverse")
             ELSE IF FLt(low, cur.bb_lower) THEN ExitTuple(TRUE, cur.bb_lower, "bb_touch")
             ELSE ExitTuple(FALSE, None, "")

\* check_exit_conditions testing the target before the stop
check_exit_conditions_TargetFirst(cur, prv, idx, position_side, entry_price, stop_loss, take_profit) ==
    LET high == cur.high
        low == cur.low
        close == cur.close
    IN  IF position_side = "long"
        THEN IF FGe(high, take_profit) THEN ExitTuple(TRUE, take_profit, "take_profit")
             ELSE IF FLe(low, stop_loss) THEN ExitTuple(TRUE, stop_loss, "stop_loss")
             ELSE IF check_macd_cross_down(cur, prv, idx) THEN ExitTuple(TRUE, close, "macd_reverse")
             ELSE IF FGe(high, cur.bb_upper) THEN ExitTuple(TRUE, cur.bb_upper, "bb_touch")
             ELSE ExitTuple(FALSE, None, "")
        ELSE IF FLe(low, take_profit) THEN ExitTuple(TRUE, take_profit, "take_profit")
             ELSE IF FGe(high, stop_loss) THEN ExitTuple(TRUE, stop_loss, "stop_loss")
             ELSE IF check_macd_cross_up(cur, prv, idx) THEN ExitTuple(TRUE, close, "macd_reverse")
             ELSE IF FLe(low, cur.bb_lower) THEN ExitTuple(TRUE, cur.bb_lower, "bb_touch")
             ELSE ExitTuple(FALSE, None, "")

\* MacdEmaBbStrategy.check_exit_conditions
check_exit_conditions(cur, prv, idx, position_side, entry_price, stop_loss, take_profit) ==
    LET high == cur.high
        low == cur.low
        close == cur.close
    IN  IF position_side = "long"
        THEN IF FLe(low, stop_loss) THEN ExitTuple(TRUE, stop_loss, "stop_loss")
             ELSE IF FGe(high, take_profit) THEN ExitTuple(TRUE, take_profit, "take_profit")
             ELSE IF check_macd_cross_down(cur, prv, idx) THEN ExitTuple(TRUE, close, "macd_reverse")
             ELSE IF FGe(high, cur.bb_upper) THEN ExitTuple(TRUE, cur.bb_upper, "bb_touch")
             ELSE NoExit
        ELSE IF FGe(high, stop_loss) THEN ExitTuple(TRUE, stop_loss, "stop_loss")
             ELSE IF FLe(low, take_profit) THEN ExitTuple(TRUE, take_profit, "take_profit")
             ELSE IF check_macd_cross_up(cur, prv, idx) THEN ExitTuple(TRUE, close, "macd_reverse")
             ELSE IF FLe(low, cur.bb_lower) THEN ExitTuple(TRUE, cur.bb_lower, "bb_touch")
             ELSE NoExit

\* update_trailing_stop moving the stop to the mid band, wherever that is
update_trailing_stop_ToMid(cur, position_side, entry_price, current_sl, reached_1to1) ==
    LET bb_mid == cur.bb_mid
    IN  IF position_side = "long"
        THEN LET target_1to1 == FAdd(entry_price, FSub(entry_price, current_sl))
                 new_reached == IF ~reached_1to1 /\ FGe(cur.high, target_1to1)
                                THEN TRUE ELSE reached_1to1
             IN  [sl |-> IF new_reached THEN bb_mid ELSE current_sl,
                  reached |-> new_reached]
        ELSE LET target_1to1 == FSub(entry_price, FSub(current_sl, entry_price))
                 new_reached == IF ~reached_1to1 /\ FLe(cur.low, target_1to1)
                                THEN TRUE ELSE reached_1to1
             IN  [sl |-> IF new_reached THEN bb_mid ELSE current_sl,
                  reached |-> new_reached]

\* MacdEmaBbStrategy.update_trailing_stop
update_trailing_stop(cur, position_side, entry_price, current_sl, reached_1to1) ==
    LET high == cur.high
        low == cur.low
        bb_mid == cur.bb_mid
    IN  IF position_side = "long"
        THEN LET risk == FSub(entry_price, current_sl)
                 target_1to1 == FAdd(entry_price, risk)
                 new_reached == IF ~reached_1to1 /\ FGe(high, target_1to1)
                                THEN TRUE ELSE reached_1to1
                 new_sl == IF new_reached THEN PyMax(current_sl, bb_mid) ELSE current_sl
             IN  [sl |-> new_sl, reached |-> new_reached]
        ELSE LET risk == FSub(current_sl, entry_price)
                 target_1to1 == FSub(entry_price, risk)
                 new_reached == IF ~reached_1to1 /\ FLe(low, target_1to1)
                                THEN TRUE ELSE reached_1to1
                 new_sl == IF new_reached THEN PyMin(current_sl, bb_mid) ELSE current_sl
             IN  [sl |-> new_sl, reached |-> new_reached]

----------------------------------------------------------------------------
(* The inputs of a run *)

\* StrategyConfig (strategies/base.py) and BacktestEngine.use_trailing: the
\* flags as the engine and the optimizer set them by default
BaseConfig ==
    [use_trailing |-> TRUE, use_qml |-> FALSE, use_qml_extreme_sl |-> FALSE,
     use_vol_filter |-> FALSE, atr_sl_mult |-> 1, rr_ratio |-> 1,
     vol_filter_mult |-> 1, squeeze_threshold |-> 1,
     qml_order |-> 1, qml_recency |-> 3]

\* the configurations of the model: every flag and multiplier changed from
\* the base, and pattern gating with and without the extreme stop
Configs ==
    { BaseConfig,
      [BaseConfig EXCEPT !.use_trailing = FALSE, !.atr_sl_mult = 2,
                         !.use_qml_extreme_sl = TRUE],
      [BaseConfig EXCEPT !.use_vol_filter = TRUE, !.rr_ratio = 2],
      [BaseConfig EXCEPT !.use_qml = TRUE],
      [BaseConfig EXCEPT !.use_qml = TRUE, !.use_qml_extreme_sl = TRUE],
      [BaseConfig EXCEPT !.use_qml = TRUE, !.use_qml_extreme_sl = TRUE,
                         !.use_trailing = FALSE, !.rr_ratio = 2] }

\* a column that repeats `pattern`, n rows long
Periodic(pattern, n) == [k \in 1..n |-> pattern[((k - 1) % Len(pattern)) + 1]]

\* the low / high columns of the DataFrames the pattern detector is run on:
\* lows that sweep (minima 2, 1, 2, ...), highs that sweep (maxima 2, 3, 2, ...
\* or 4, 5, 4, ...), and both at once
QmlColumns(n) ==
    { [low |-> Periodic(<<3, 2, 3, 1>>, n), high |-> Periodic(<<3, 3, 3, 3>>, n)],
      [low |-> Periodic(<<1, 1, 1, 1>>, n), high |-> Periodic(<<1, 2, 1, 3>>, n)],
      [low |-> Periodic(<<3, 2, 3, 1>>, n), high |-> Periodic(<<3, 4, 3, 5>>, n)] }

\* without pattern gating nothing reads a whole column: low and high are
\* drawn row by row
LazyColumns == [low |-> <<>>, high |-> <<>>]

\* a row none of whose columns has been read
BlankRow ==
    [low |-> Unread, high |-> Unread, close |-> Unread, volume |-> Unread,
     vol_avg |-> Unread, ema |-> Unread, macd |-> Unread, signal |-> Unread,
     bb_upper |-> Unread, bb_mid |-> Unread, bb_lower |-> Unread,
     bb_width |-> Unread, atr |-> Unread]

\* values of the rolling columns: NaN while the window is not full.  The
\* windows of the model have one length: bb_width, vol_avg and atr of a row
\* are NaN together
WidthVals == {NaN, 0, 1}
AtrVals == {0, 1}
VolAvgVals == {1}
BandVals == {NaN, 1, 3}

\* (low, high) of bar idx
LowHighs(d, idx) ==
    IF Len(d.low) = 0
    THEN {lh \in Prices \X Prices : lh[1] <= lh[2]}
    ELSE {<<At(d.low, idx), At(d.high, idx)>>}

\* close of bar idx
Closes(d, idx) ==
    IF Len(d.low) = 0 THEN Prices
    ELSE At(d.low, idx)..At(d.high, idx)

----------------------------------------------------------------------------
(* backtest/engine.py *)

\* pnl_pct computed as for a long whatever the side
PnlPct_AsLong(side, entry_price, exit_price) ==
    RMul(Frac(exit_price - entry_price, entry_price), RInt(100))

\* pnl_pct of a closed position (engine.py, run)
PnlPct(side, entry_price, exit_price) ==
    IF side = "long"
    THEN RMul(Frac(exit_price - entry_price, entry_price), RInt(100))
    ELSE RMul(Frac(entry_price - exit_price, entry_price), RInt(100))

RECURSIVE RSum(_)
RSum(xs) == IF xs = <<>> THEN RInt(0) ELSE RAdd(xs[1], RSum(Tail(xs)))

RECURSIVE RSeqMax(_)
RSeqMax(xs) == IF Len(xs) = 1 THEN xs[1] ELSE RMax(xs[1], RSeqMax(Tail(xs)))

\* np.maximum.accumulate
RunningMax(xs) == [k \in 1..Len(xs) |-> RSeqMax(SubSeq(xs, 1, k))]

\* _calculate_stats returning the equity values of the trades only
calculate_stats_TradesOnly(trs, curve) ==
    [total_pnl_pct |-> RSum([k \in 1..Len(trs) |-> trs[k].pnl_pct]),
     win_rate |-> RInt(0), num_trades |-> Len(trs), avg_pnl |-> RInt(0),
     max_drawdown |-> RInt(0), trades |-> trs, equity_curve |-> Tail(curve)]

\* _calculate_stats with the win rate net of the losing trades
calculate_stats_NetWins(trs, curve) ==
    IF trs = <<>>
    THEN [total_pnl_pct |-> RInt(0), win_rate |-> RInt(0), num_trades |-> 0,
          avg_pnl |-> RInt(0), max_drawdown |-> RInt(0),
          trades |-> <<>>, equity_curve |-> <<RInt(1)>>]
    ELSE LET pnls == [k \in 1..Len(trs) |-> trs[k].pnl_pct]
             wins == Cardinality({k \in 1..Len(pnls) : RLt(RInt(0), pnls[k])})
         IN  [total_pnl_pct |-> RSum(pnls),
              win_rate |-> RMul(Frac(wins - (Len(pnls) - wins), Len(pnls)), RInt(100)),
              num_trades |-> Len(trs),
              avg_pnl |-> RDiv(RSum(pnls), RInt(Len(pnls))),
              max_drawdown |-> RInt(0),
              trades |-> trs, equity_curve |-> curve]

\* BacktestEngine._calculate_stats
calculate_stats(trs, curve) ==
    IF trs = <<>>
    THEN [total_pnl_pct |-> RInt(0), win_rate |-> RInt(0), num_trades |-> 0,
          avg_pnl |-> RInt(0), max_drawdown |-> RInt(0),
          trades |-> <<>>, equity_curve |-> <<RInt(1)>>]
    ELSE LET pnls == [k \in 1..Len(trs) |-> trs[k].pnl_pct]
             total_pnl == RSum(pnls)
             wins == Cardinality({k \in 1..Len(pnls) : RLt(RInt(0), pnls[k])})
             win_rate == RMul(Frac(wins, Len(pnls)), RInt(100))
             avg_pnl == RDiv(total_pnl, RInt(Len(pnls)))
             running_max == RunningMax(curve)
             drawdowns == [k \in 1..Len(curve) |->
                             RMul(RDiv(RSub(running_max[k], curve[k]), running_max[k]),
                                  RInt(100))]
             max_drawdown == RSeqMax(drawdowns)
         IN  [total_pnl_pct |-> total_pnl, win_rate |-> win_rate,
              num_trades |-> Len(trs), avg_pnl |-> avg_pnl,
              max_drawdown |-> max_drawdown,
              trades |-> trs, equity_curve |-> curve]

\* the state of the strategy object when run is called: as constructed, or,
\* with pattern gating, the levels an earlier run of the object has left
StaleStrategy == [last_qml_bull |-> 3, last_qml_bear |-> 1]
Memories(c) == IF c.use_qml THEN {NewStrategy, StaleStrategy} ELSE {NewStrategy}

\* run, lines 99-104: the locals before the loop, st the strategy object's state
NewRun(st) ==
    [in_position |-> FALSE, position |-> NoneObj, pos |-> NoneObj,
     trades |-> <<>>, equity_curve |-> <<RInt(1)>>, current_equity |-> RInt(1),
     signal |-> NoneObj, strategy |-> st]

\* the locals of run and the strategy object's state, as one value
Locals ==
    [in_position |-> in_position, position |-> position, pos |-> pos,
     trades |-> trades, equity_curve |-> equity_curve,
     current_equity |-> current_equity, signal |-> signal,
     strategy |-> strategy]

\* run, lines 99-104: the locals are bound, the strategy object is in state st
Bind(st) ==
    LET run == NewRun(st)
    IN  /\ in_position = run.in_position
        /\ position = run.position
        /\ pos = run.pos
        /\ trades = run.trades
        /\ equity_curve = run.equity_curve
        /\ current_equity = run.current_equity
        /\ signal = run.signal
        /\ strategy = run.strategy

\* no optimizer is at work
NoSearch == grid = NoneObj /\ search = NoneObj /\ pruned = NoneObj

\* the arguments of run, for every input of the model
Inputs ==
    /\ pc = "run"
    /\ cfg \in Configs
    /\ max_lookback \in (IF cfg.use_qml THEN QmlLookbacks ELSE Lookbacks)
    /\ df_len \in 0..(max_lookback + MaxRun)
    /\ df \in (IF cfg.use_qml THEN QmlColumns(df_len) ELSE {LazyColumns})
    /\ i = max_lookback
    /\ row \in (IF max_lookback >= 1
                THEN {[BlankRow EXCEPT !.macd = m, !.signal = g] :
                        m \in MacdVals, g \in SignalVals}
                ELSE {BlankRow})
    /\ result = NoneObj
    /\ call = NoneObj
    /\ NoSearch

\* one execution of run with a newly constructed strategy
Init ==
    /\ Inputs
    /\ Bind(NewStrategy)
    /\ rerun = NoneObj

\* two executions of run on the same bars, config and max_lookback, each on a
\* strategy object in a state Memories allows
InitTwoRuns ==
    /\ Inputs
    /\ \E st \in Memories(cfg) : Bind(st)
    /\ rerun \in {[run |-> NewRun(st), result |-> NoneObj] : st \in Memories(cfg)}

\* the opening of a position dated to the bar after the Signal's
Opened_NextBarEntry(run, idx, g) ==
    IF g.signal # NoneObj
    THEN [run EXCEPT !.strategy = g.st,
                     !.signal = g.signal,
                     !.position = [entry_idx |-> idx + 1,
                                   entry_price |-> g.signal.entry_price,
                                   sl |-> g.signal.stop_loss,
                                   tp |-> g.signal.take_profit,
                                   side |-> g.signal.side,
                                   reached_1to1 |-> FALSE],
                     !.in_position = TRUE]
    ELSE [run EXCEPT !.strategy = g.st, !.signal = g.signal]

\* the opening of a position that takes the 1:1 flag of the position managed last
Opened_KeepsFlag(run, idx, g) ==
    IF g.signal # NoneObj
    THEN [run EXCEPT !.strategy = g.st,
                     !.signal = g.signal,
                     !.position = [entry_idx |-> idx,
                                   entry_price |-> g.signal.entry_price,
                                   sl |-> g.signal.stop_loss,
                                   tp |-> g.signal.take_profit,
                                   side |-> g.signal.side,
                                   reached_1to1 |-> IF run.pos = NoneObj THEN FALSE
                                                    ELSE run.pos.reached_1to1],
                     !.in_position = TRUE]
    ELSE [run EXCEPT !.strategy = g.st, !.signal = g.signal]

\* the opening of a position with its stop at the entry price
Opened_StopAtEntry(run, idx, g) ==
    IF g.signal # NoneObj
    THEN [run EXCEPT !.strategy = g.st,
                     !.signal = g.signal,
                     !.position = [entry_idx |-> idx,
                                   entry_price |-> g.signal.entry_price,
                                   sl |-> g.signal.entry_price,
                                   tp |-> g.signal.take_profit,
                                   side |-> g.signal.side,
                                   reached_1to1 |-> FALSE],
                     !.in_position = TRUE]
    ELSE [run EXCEPT !.strategy = g.st, !.signal = g.signal]

\* run, lines 111-120: g is what generate_signal returned and left in the strategy
Opened(run, idx, g) ==
    IF g.signal # NoneObj
    THEN [run EXCEPT !.strategy = g.st,
                     !.signal = g.signal,
                     !.position = [entry_idx |-> idx,
                                   entry_price |-> g.signal.entry_price,
                                   sl |-> g.signal.stop_loss,
                                   tp |-> g.signal.take_profit,
                                   side |-> g.signal.side,
                                   reached_1to1 |-> FALSE],
                     !.in_position = TRUE]
    ELSE [run EXCEPT !.strategy = g.st, !.signal = g.signal]

\* run, lines 107-120: the iteration of bar i while no position is open
FlatIteration(run, cur) ==
    Opened(run, i, generate_signal(cfg, run.strategy, df, cur, row, i))

\* the trailing update made whether or not use_trailing is set
Trailed_Always(p, cur) ==
    [p EXCEPT !.sl = update_trailing_stop(cur, p.side, p.entry_price,
                                          p.sl, p.reached_1to1).sl,
              !.reached_1to1 = update_trailing_stop(cur, p.side, p.entry_price,
                                                    p.sl, p.reached_1to1).reached]

\* run, lines 122-136: the trailing stop of the open position on bar i
Trailed(p, cur) ==
    IF cfg.use_trailing
    THEN LET t == update_trailing_stop(cur, p.side, p.entry_price,
                                       p.sl, p.reached_1to1)
         IN  [p EXCEPT !.sl = t.sl, !.reached_1to1 = t.reached]
    ELSE p

\* the closing of a position that puts the trade at the head of the list
Closed_Prepends(run, idx, p, x) ==
    IF x.should_exit
    THEN LET pnl_pct == PnlPct(p.side, p.entry_price, x.exit_price)
             trade == [entry_idx |-> p.entry_idx,
                       exit_idx |-> idx,
                       entry_price |-> p.entry_price,
                       exit_price |-> x.exit_price,
                       side |-> p.side,
                       pnl_pct |-> pnl_pct,
                       exit_reason |-> x.exit_reason]
             equity == RMul(run.current_equity,
                            RAdd(RInt(1), RDiv(pnl_pct, RInt(100))))
         IN  [run EXCEPT !.pos = p,
                         !.trades = <<trade>> \o run.trades,
                         !.current_equity = equity,
                         !.equity_curve = Append(run.equity_curve, equity),
                         !.in_position = FALSE,
                         !.position = NoneObj]
    ELSE [run EXCEPT !.pos = p, !.position = p]

\* run, lines 147-172: p is the position after the trailing update, x what
\* check_exit_conditions returned for it
Closed(run, idx, p, x) ==
    IF x.should_exit
    THEN LET pnl_pct == PnlPct(p.side, p.entry_price, x.exit_price)
             trade == [entry_idx |-> p.entry_idx,
                       exit_idx |-> idx,
                       entry_price |-> p.entry_price,
                       exit_price |-> x.exit_price,
                       side |-> p.side,
                       pnl_pct |-> pnl_pct,
                       exit_reason |-> x.exit_reason]
             equity == RMul(run.current_equity,
                            RAdd(RInt(1), RDiv(pnl_pct, RInt(100))))
         IN  [run EXCEPT !.pos = p,
                         !.trades = Append(run.trades, trade),
                         !.current_equity = equity,
                         !.equity_curve = Append(run.equity_curve, equity),
                         !.in_position = FALSE,
                         !.position = NoneObj]
    ELSE [run EXCEPT !.pos = p, !.position = p]

\* run, lines 138-145: the exit evaluation of position p on bar i
Managed(run, cur, p) ==
    Closed(run, i, p, check_exit_conditions(cur, row, i, p.side, p.entry_price,
                                            p.sl, p.tp))

\* the iteration of a held bar evaluating the exits on the stop of the bar
\* before, and trailing the stop of a position that stays open afterwards
HeldIteration_ExitFirst(run, cur) ==
    IF Managed(run, cur, run.position).in_position
    THEN [run EXCEPT !.pos = Trailed(run.position, cur),
                     !.position = Trailed(run.position, cur)]
    ELSE Managed(run, cur, run.position)

\* run, lines 122-172: the iteration of bar i while a position is open
HeldIteration(run, cur) == Managed(run, cur, Trailed(run.position, cur))

\* run, lines 106-172: the body of the for loop on bar i
Iteration(run, cur) ==
    IF ~run.in_position THEN FlatIteration(run, cur) ELSE HeldIteration(run, cur)

\* the locals and the strategy state after the iteration
Assign(run) ==
    /\ in_position' = run.in_position
    /\ position' = run.position
    /\ pos' = run.pos
    /\ trades' = run.trades
    /\ equity_curve' = run.equity_curve
    /\ current_equity' = run.current_equity
    /\ signal' = run.signal
    /\ strategy' = run.strategy

\* the move to the next bar, the second execution reading the same bar
NextBar(cur) ==
    /\ row' = cur
    /\ i' = i + 1
    /\ rerun' = IF rerun = NoneObj THEN NoneObj
                ELSE [rerun EXCEPT !.run = Iteration(rerun.run, cur)]
    /\ UNCHANGED <<pc, cfg, max_lookback, df, df_len, result, call, optimizer_vars>>

\* The rows an iteration without a position can read at bar i, each with the
\* columns its outcome depends on: macd and signal; on a cross, bb_width (and
\* volume, vol_avg under the volume filter); past the filters, close and ema;
\* on the side of ema that matches the cross, atr.
FlatRows ==
    LET heads == {[BlankRow EXCEPT !.macd = m, !.signal = g] :
                    m \in MacdVals, g \in SignalVals}
        crosses(r) == \/ check_macd_cross_up(r, row, i)
                      \/ check_macd_cross_down(r, row, i)
        filtered == UNION {IF crosses(r)
                           THEN UNION {{[r EXCEPT !.bb_width = w, !.volume = v, !.vol_avg = va] :
                                          v \in (IF cfg.use_vol_filter THEN VolumeVals ELSE {Unread}),
                                          va \in (IF ~cfg.use_vol_filter THEN {Unread}
                                                  ELSE IF IsNaN(w) THEN {NaN} ELSE VolAvgVals)} :
                                       w \in WidthVals}
                           ELSE {r} : r \in heads}
        priced == UNION {IF crosses(r) /\ check_filters(cfg, r)
                         THEN {[r EXCEPT !.close = cl, !.ema = e] :
                                 cl \in Closes(df, i), e \in EmaVals}
                         ELSE {r} : r \in filtered}
        sided(r) == /\ crosses(r)
                    /\ check_filters(cfg, r)
                    /\ \/ check_macd_cross_up(r, row, i) /\ check_price_above_ema(r)
                       \/ check_macd_cross_down(r, row, i) /\ check_price_below_ema(r)
    IN  UNION {IF sided(r)
               THEN {[r EXCEPT !.atr = a] :
                       a \in (IF IsNaN(r.bb_width) THEN {NaN} ELSE AtrVals)}
               ELSE {r} : r \in priced}

\* The rows an iteration with an open position can read at bar i.  low, high,
\* macd and signal always; bb_mid when the trailing stop is past 1:1; close
\* when the exit is the reverse cross; the opposite band when no earlier exit
\* condition holds.  A band is NaN with its mid band, and the upper (lower)
\* band is not below (above) the mid band.
HeldRows ==
    LET heads == {[BlankRow EXCEPT !.low = lh[1], !.high = lh[2],
                                   !.macd = m, !.signal = g] :
                    lh \in LowHighs(df, i), m \in MacdVals, g \in SignalVals}
        reaches(r) == /\ cfg.use_trailing
                      /\ update_trailing_stop([r EXCEPT !.bb_mid = NaN],
                             position.side, position.entry_price,
                             position.sl, position.reached_1to1).reached
        mids == UNION {IF reaches(r)
                       THEN {[r EXCEPT !.bb_mid = b] : b \in BandVals}
                       ELSE {r} : r \in heads}
        reason(r) == LET p == Trailed(position, r)
                         probe == [r EXCEPT !.close = NaN, !.bb_upper = NaN,
                                            !.bb_lower = NaN]
                     IN  check_exit_conditions(probe, row, i, p.side,
                             p.entry_price, p.sl, p.tp).exit_reason
        bands(r) == IF r.bb_mid = Unread THEN BandVals
                    ELSE IF IsNaN(r.bb_mid) THEN {NaN}
                    ELSE IF position.side = "long"
                    THEN {b \in BandVals : IsNaN(b) \/ b >= r.bb_mid}
                    ELSE {b \in BandVals : IsNaN(b) \/ b <= r.bb_mid}
    IN  UNION {IF reason(r) \in {"stop_loss", "take_profit"} THEN {r}
               ELSE IF reason(r) = "macd_reverse"
               THEN {[r EXCEPT !.close = cl] : cl \in r.low..r.high}
               ELSE IF position.side = "long"
               THEN {[r EXCEPT !.bb_upper = b] : b \in bands(r)}
               ELSE {[r EXCEPT !.bb_lower = b] : b \in bands(r)} : r \in mids}

\* the pass of the loop without a position that also walks index len(df)
StepFlat_PastEnd ==
    /\ pc = "run"
    /\ i <= df_len
    /\ ~in_position
    /\ \E cur \in FlatRows : Assign(FlatIteration(Locals, cur)) /\ NextBar(cur)

\* the pass of the loop that asks for a signal whether or not a position is open
StepFlat_AnyState ==
    /\ pc = "run"
    /\ i < df_len
    /\ \E cur \in FlatRows : Assign(FlatIteration(Locals, cur)) /\ NextBar(cur)

\* one pass of the for loop, lines 106-120, no position open
StepFlat ==
    /\ pc = "run"
    /\ i < df_len
    /\ ~in_position
    /\ \E cur \in FlatRows : Assign(FlatIteration(Locals, cur)) /\ NextBar(cur)

\* one pass of the for loop, lines 106, 122-172, a position open
StepHeld ==
    /\ pc = "run"
    /\ i < df_len
    /\ in_position
    /\ \E cur \in HeldRows : Assign(HeldIteration(Locals, cur)) /\ NextBar(cur)

\* the end of the loop closing the position that is still open, at its entry price
Finish_ClosesOpen ==
    /\ pc = "run"
    /\ i >= df_len
    /\ trades' = IF in_position
                 THEN Append(trades, [entry_idx |-> position.entry_idx,
                                      exit_idx |-> i - 1,
                                      entry_price |-> position.entry_price,
                                      exit_price |-> position.entry_price,
                                      side |-> position.side,
                                      pnl_pct |-> RInt(0),
                                      exit_reason |-> "end_of_data"])
                 ELSE trades
    /\ equity_curve' = IF in_position THEN Append(equity_curve, current_equity)
                       ELSE equity_curve
    /\ result' = calculate_stats(trades', equity_curve')
    /\ pc' = "done"
    /\ UNCHANGED <<cfg, max_lookback, df, df_len, i, row, in_position,
                   position, pos, current_equity, signal, strategy, rerun, call,
                   optimizer_vars>>

\* range(max_lookback, len(df)) is exhausted (at once when len(df) <=
\* max_lookback); run returns _calculate_stats(trades, equity_curve), line 175
Finish ==
    /\ pc = "run"
    /\ i >= df_len
    /\ result' = calculate_stats(trades, equity_curve)
    /\ rerun' = IF rerun = NoneObj THEN NoneObj
                ELSE [rerun EXCEPT !.result = calculate_stats(rerun.run.trades,
                                                              rerun.run.equity_curve)]
    /\ pc' = "done"
    /\ UNCHANGED <<cfg, max_lookback, df, df_len, i, row, in_position,
                   position, pos, trades, equity_curve, current_equity, signal, strategy,
                   call, optimizer_vars>>

Next == StepFlat \/ StepHeld \/ Finish

Spec == Init /\ [][Next]_vars

SpecTwoRuns == InitTwoRuns /\ [][Next]_vars

----------------------------------------------------------------------------
(* Properties of BacktestEngine.run *)

\* the trade recorded last
LastTrade == trades[Len(trades)]

\* the four exit reasons of check_exit_conditions
ExitReasons == {"stop_loss", "take_profit", "macd_reverse", "bb_touch"}

\* C1: during run at most one position is open.  in_position and position
\* say the same (FLAT: False / None, ENTERED: True / a long or short dict); a
\* position is opened only from FLAT, on the bar of the step, and recorded
\* as a trade only from ENTERED; an open position is not replaced by another;
\* the strategy's signal memory changes only in a FLAT iteration and the
\* managed dict pos only in an ENTERED one.
C1_OnePositionAtATime ==
    [][/\ in_position \in BOOLEAN /\ in_position' \in BOOLEAN
       /\ in_position <=> position # NoneObj
       /\ in_position' <=> position' # NoneObj
       /\ in_position' => position'.side \in {"long", "short"}
       /\ (~in_position /\ in_position') =>
              position'.entry_idx = i /\ trades' = trades
       /\ (in_position /\ in_position') =>
              position'.entry_idx = position.entry_idx /\ trades' = trades
       /\ (in_position /\ ~in_position') => Len(trades') = Len(trades) + 1
       /\ Len(trades') # Len(trades) => in_position /\ ~in_position'
       /\ pos' # pos => in_position
       /\ strategy' # strategy => ~in_position]_vars

\* C1 witness: FLAT -> ENTERED -> FLAT -> ENTERED, a position open after an
\* earlier one was closed
C1_Witness == in_position /\ Len(trades) = 1 /\ pc = "run"

\* C2: after every iteration of run, and in the result returned,
\* equity_curve has one element more than trades and starts with 1.0
C2_EquityCurveLength ==
    /\ Len(equity_curve) = Len(trades) + 1
    /\ equity_curve[1] = RInt(1)
    /\ result # NoneObj =>
          /\ Len(result.equity_curve) = Len(result.trades) + 1
          /\ result.equity_curve[1] = RInt(1)

\* C2 witness: a result returned with a closed trade
C2_Witness == result # NoneObj /\ result.num_trades = 1

\* pos was managed (trailing and exit evaluation) on bar i - 1, which is row
ManagedOnRow ==
    /\ pos # NoneObj
    /\ \/ in_position /\ position = pos /\ pos.entry_idx < i - 1
       \/ trades # <<>> /\ LastTrade.exit_idx = i - 1

\* the stop-loss and the take-profit condition of position p both hold on bar r
BothHit(p, r) ==
    IF p.side = "long"
    THEN FLe(r.low, p.sl) /\ FGe(r.high, p.tp)
    ELSE FGe(r.high, p.sl) /\ FLe(r.low, p.tp)

\* C3: when the stop-loss and the take-profit condition both hold on the bar
\* an open position is managed on, the position is closed on that bar and
\* the trade recorded has reason stop_loss and the stop as its exit price
C3_StopBeforeTarget ==
    (ManagedOnRow /\ BothHit(pos, row)) =>
        /\ trades # <<>>
        /\ LastTrade.exit_idx = i - 1
        /\ LastTrade.exit_reason = "stop_loss"
        /\ LastTrade.exit_price = pos.sl

\* C3 witness: both conditions held on the last bar, stop and target apart
C3_Witness == ManagedOnRow /\ BothHit(pos, row) /\ pos.sl # pos.tp

\* C4: on every bar an open position is managed on, once the 1:1 flag is set
\* the stop after the bar is at least (long) / at most (short) the stop
\* before it
C4_TrailingMonotonic ==
    [][(in_position /\ i' = i + 1 /\ pos'.reached_1to1) =>
          IF position.side = "long"
          THEN FGe(pos'.sl, position.sl)
          ELSE FLe(pos'.sl, position.sl)]_vars

\* C4 witness: a position past 1:1 kept open over a bar whose mid band is
\* undefined or not on the tightening side of the stop
C4_Witness ==
    /\ in_position /\ position = pos /\ position.reached_1to1
    /\ IF position.side = "long"
       THEN ~FGt(row.bb_mid, position.sl)
       ELSE ~FLt(row.bb_mid, position.sl)

\* C5: when run returns with a position still open, the return step adds no
\* trade and no equity value, and the result holds exactly the trades closed
\* by an exit condition, none of them the open position's
C5_OpenPositionDiscarded ==
    [][(pc = "run" /\ pc' = "done" /\ in_position) =>
          /\ trades' = trades
          /\ equity_curve' = equity_curve
          /\ result'.trades = trades
          /\ result'.num_trades = Len(trades)
          /\ Len(result'.equity_curve) = Len(trades) + 1
          /\ result'.total_pnl_pct = RSum([k \in 1..Len(trades) |-> trades[k].pnl_pct])
          /\ \A k \in 1..Len(result'.trades) :
                /\ result'.trades[k].entry_idx # position.entry_idx
                /\ result'.trades[k].exit_reason \in ExitReasons]_vars

\* C5 witness: run has returned with one trade closed and a later position open
C5_Witness == pc = "done" /\ in_position /\ result.num_trades = 1

\* C6: every trade recorded by run, and every trade of the result, has side
\* long or short and one of the four exit reasons; the empty reason of a
\* non-exit is not recorded
C6_SidesAndReasons ==
    /\ \A k \in 1..Len(trades) :
          /\ trades[k].side \in {"long", "short"}
          /\ trades[k].exit_reason \in ExitReasons
    /\ result # NoneObj =>
          \A k \in 1..Len(result.trades) :
             /\ result.trades[k].side \in {"long", "short"}
             /\ result.trades[k].exit_reason \in ExitReasons

\* C6 witness: a trade recorded after a bar on which check_exit_conditions
\* reported no exit for its position
C6_Witness ==
    /\ Len(trades) = 1
    /\ trades[1].exit_idx >= trades[1].entry_idx + 2

\* C7: two executions of run on the same bars, config and max_lookback
\* return equal results: trades, equity curve and statistics
C7_SameResult ==
    (pc = "done" /\ rerun # NoneObj) => rerun.result = result

\* C7 witness: both executions have returned, with a trade whose stop came
\* from a pattern level, on strategy objects whose remembered levels differ
C7_Witness ==
    /\ pc = "done" /\ rerun # NoneObj
    /\ cfg.use_qml_extreme_sl
    /\ result.num_trades >= 1
    /\ rerun.run.strategy # strategy

\* C8: in every result win_rate is within [0, 100]; with no closed trade
\* total PNL, win rate, trade count, average PNL and max drawdown are 0 and
\* the equity curve is [1.0]
C8_StatsRange ==
    result # NoneObj =>
        /\ RLe(RInt(0), result.win_rate)
        /\ RLe(result.win_rate, RInt(100))
        /\ trades = <<>> =>
              /\ result.total_pnl_pct = RInt(0)
              /\ result.win_rate = RInt(0)
              /\ result.num_trades = 0
              /\ result.avg_pnl = RInt(0)
              /\ result.max_drawdown = RInt(0)
              /\ result.equity_curve = <<RInt(1)>>

\* C8 witness: a result with one losing trade (win rate 0 of one trade)
C8_Witness ==
    /\ result # NoneObj
    /\ result.num_trades = 1
    /\ RLt(result.total_pnl_pct, RInt(0))

\* C9: a position is opened on bar i only if i >= 1, the oscillator crossed
\* its signal line in the position's direction between bar i - 1 and bar i
\* (long: at or below at i - 1, strictly above at i; short: mirrored) and
\* the close of bar i is strictly on the matching side of the trend average;
\* a trade is recorded only for the open position, with its entry bar and
\* side; so bars without a crossing leave the run without position or trade
C9_EntryOnCross ==
    [][/\ (~in_position /\ in_position') =>
             /\ i >= 1
             /\ position'.entry_idx = i
             /\ IF position'.side = "long"
                THEN /\ FLe(row.macd, row.signal)
                     /\ FGt(row'.macd, row'.signal)
                     /\ FGt(row'.close, row'.ema)
                ELSE /\ FGe(row.macd, row.signal)
                     /\ FLt(row'.macd, row'.signal)
                     /\ FLt(row'.close, row'.ema)
       /\ trades' # trades =>
             /\ in_position
             /\ trades' = Append(trades, LastTrade')
             /\ LastTrade'.entry_idx = position.entry_idx
             /\ LastTrade'.side = position.side
       /\ (result' # NoneObj /\ trades = <<>>) =>
             /\ result'.num_trades = 0
             /\ result'.equity_curve = <<RInt(1)>>]_vars

\* C9 witness: a short trade recorded, opened on a bar the run walked
C9_Witness ==
    /\ trades # <<>>
    /\ LastTrade.side = "short"
    /\ LastTrade.entry_idx >= max_lookback

\* C10: with use_qml_extreme_sl off, the position opened from the Signal of
\* bar k (row) has entry = close[k]; long: stop = entry - atr[k] * atr_sl_mult,
\* target = entry + (entry - stop) * rr_ratio; short: stop = entry + atr[k] *
\* atr_sl_mult, target = entry - (stop - entry) * rr_ratio
C10_SignalLevels ==
    (in_position /\ position.entry_idx = i - 1 /\ ~cfg.use_qml_extreme_sl) =>
        /\ position.entry_price = row.close
        /\ IF position.side = "long"
           THEN /\ position.sl = FSub(row.close, FMul(row.atr, cfg.atr_sl_mult))
                /\ position.tp = FAdd(position.entry_price,
                                      FMul(FSub(position.entry_price, position.sl),
                                           cfg.rr_ratio))
           ELSE /\ position.sl = FAdd(row.close, FMul(row.atr, cfg.atr_sl_mult))
                /\ position.tp = FSub(position.entry_price,
                                      FMul(FSub(position.sl, position.entry_price),
                                           cfg.rr_ratio))

\* C10 witness: a long just opened with a defined ATR and rr_ratio 2
C10_Witness ==
    /\ in_position /\ position.entry_idx = i - 1 /\ ~cfg.use_qml_extreme_sl
    /\ position.side = "long" /\ cfg.rr_ratio = 2 /\ row.atr = 1

----------------------------------------------------------------------------
(* generate_signal called on its own: one call on bar i of a DataFrame, by   *)
(* an engine, a live loop or a test.  row is df.iloc[i - 1], call.cur is     *)
(* df.iloc[i] with every column the call can read.                           *)

\* the low / high columns of the calls: those of QmlColumns, lows whose
\* last bar falls through the swept low, highs whose last bar breaks the
\* swept high
SignalColumns ==
    QmlColumns(9) \cup
    { [low |-> <<6, 5, 6, 4, 6, 5, 6, 1, 6>>, high |-> <<6, 6, 6, 6, 6, 6, 6, 6, 6>>],
      [low |-> <<1, 1, 1, 1, 1, 1, 1, 1, 1>>, high |-> <<1, 2, 1, 3, 1, 2, 1, 6, 1>>] }

\* the bars the calls are made on
SignalBars == {6, 7, 8}

SignalEmaVals == {1, 3, 6}

\* df.iloc[idx] of the calls: every column generate_signal reads, the rolling
\* columns NaN together
SignalRows(d, idx) ==
    UNION {{[BlankRow EXCEPT !.low = At(d.low, idx), !.high = At(d.high, idx),
                             !.macd = m, !.signal = g, !.close = cl, !.ema = e,
                             !.bb_width = w, !.volume = v,
                             !.vol_avg = IF IsNaN(w) THEN NaN ELSE va,
                             !.atr = IF IsNaN(w) THEN NaN ELSE a] :
              m \in MacdVals, g \in SignalVals, cl \in Closes(d, idx),
              e \in SignalEmaVals, v \in VolumeVals, va \in VolAvgVals,
              a \in AtrVals} : w \in WidthVals}

\* Signal.risk
SignalRisk(sig) ==
    IF sig.side = "long" THEN FSub(sig.entry_price, sig.stop_loss)
    ELSE FSub(sig.stop_loss, sig.entry_price)

\* Signal.reward
SignalReward(sig) ==
    IF sig.side = "long" THEN FSub(sig.take_profit, sig.entry_price)
    ELSE FSub(sig.entry_price, sig.take_profit)

\* a strategy object, a DataFrame and a bar index: the arguments of one call
InitSignal ==
    /\ pc = "generate_signal"
    /\ cfg \in Configs
    /\ df \in SignalColumns
    /\ df_len = Len(df.low)
    /\ i \in SignalBars
    /\ max_lookback = i
    /\ row \in {[BlankRow EXCEPT !.macd = m, !.signal = g] :
                  m \in MacdVals, g \in SignalVals}
    /\ call \in {[cur |-> r, signal |-> NoneObj] : r \in SignalRows(df, i)}
    /\ \E st \in Memories(cfg) : Bind(st)
    /\ result = NoneObj
    /\ rerun = NoneObj
    /\ NoSearch

\* g is what generate_signal returned and left in the strategy
Returned(g) ==
    /\ call' = [call EXCEPT !.signal = g.signal]
    /\ strategy' = g.st

\* the call strategy.generate_signal(df, i)
GenerateSignal ==
    /\ pc = "generate_signal"
    /\ Returned(generate_signal(cfg, strategy, df, call.cur, row, i))
    /\ pc' = "returned"
    /\ UNCHANGED <<cfg, max_lookback, df, df_len, i, row, in_position, position,
                   pos, trades, equity_curve, current_equity, signal, result, rerun,
                   optimizer_vars>>

NextSignal == GenerateSignal

SpecSignal == InitSignal /\ [][NextSignal]_vars

----------------------------------------------------------------------------
(* Properties of generate_signal *)

\* C11: every Signal generate_signal returns, long or short, with the
\* ATR-based or the pattern-based stop, has risk >= 0 and reward >= 0 when
\* the ATR of the bar is a number >= 0 (atr_sl_mult and rr_ratio are
\* positive in every configuration)
C11_RiskRewardNonNegative ==
    (pc = "returned" /\ call.signal # NoneObj /\ FGe(call.cur.atr, 0)) =>
        /\ FGe(SignalRisk(call.signal), 0)
        /\ FGe(SignalReward(call.signal), 0)

\* C12: generate_signal returns no signal on a bar whose band width is below
\* squeeze_threshold, with use_vol_filter on or off: the iteration of run
\* that asks for a signal on such a bar opens no position and leaves the
\* strategy's memory alone; a trade is recorded only for the open position,
\* so no trade has such an entry bar.  (A width that is Unread stands for
\* any value.)
C12_NoEntryInSqueeze ==
    [][/\ (pc = "run" /\ ~in_position /\ i' = i + 1
           /\ FLt(row'.bb_width, cfg.squeeze_threshold)) =>
              /\ ~in_position'
              /\ position' = NoneObj
              /\ strategy' = strategy
       /\ trades' # trades =>
              /\ in_position
              /\ LastTrade'.entry_idx = position.entry_idx]_vars

\* C12 witness: with the volume filter on and passed (volume 2 above the
\* average 1), a bar on which the oscillator crossed has width 0 below the
\* threshold 1, and the run is still without position
C12_Witness ==
    /\ pc = "run" /\ ~in_position /\ i > max_lookback
    /\ cfg.use_vol_filter /\ row.volume = 2 /\ row.vol_avg = 1
    /\ row.bb_width = 0

----------------------------------------------------------------------------
(* run_backtest (backtest/engine.py): calculate_indicators with the periods  *)
(* of the config, then engine.run(df) with the default max_lookback.  A      *)
(* rolling column (pandas rolling(period)) is NaN at the indices below       *)
(* period - 1 and a number from there on.                                    *)

\* the default of the argument max_lookback of BacktestEngine.run
DefaultMaxLookback == 100

\* the periods of StrategyConfig() and periods longer than the default warm-up
DefaultPeriods ==
    [ema_period |-> 100, macd_slow |-> 26, bb_period |-> 20, atr_period |-> 14,
     vol_period |-> 20]
LongPeriods ==
    [ema_period |-> 100, macd_slow |-> 26, bb_period |-> 102, atr_period |-> 101,
     vol_period |-> 102]

\* StrategyConfig objects with their periods, pattern gating off
BacktestConfigs ==
    {c @@ p : c \in {c \in Configs : ~c.use_qml}, p \in {DefaultPeriods, LongPeriods}}

\* len(df) of the calls: empty, shorter than every window, as long as the
\* warm-up, and up to MaxRun bars longer
BacktestLens == {0, 10, DefaultMaxLookback} \cup
                (DefaultMaxLookback + 1)..(DefaultMaxLookback + MaxRun)

\* the longest lookback period the indicators of config c need
LongestLookback(c) ==
    CHOOSE p \in {c.ema_period, c.macd_slow, c.bb_period, c.atr_period, c.vol_period} :
        \A q \in {c.ema_period, c.macd_slow, c.bb_period, c.atr_period, c.vol_period} :
            q <= p

\* series.rolling(period): the value at index idx is defined
WindowFull(period, idx) == idx >= period - 1

\* value v, read or not, is one a rolling(period) column can hold at index idx
Rolled(v, period, idx) ==
    v = Unread \/ (IsNaN(v) <=> ~WindowFull(period, idx))

\* row r of the DataFrame calculate_indicators returned, at index i; the true
\* range of index 0 is NaN (close.shift(1)), so the ATR's first window is
\* 1 .. atr_period
Calculated(r) ==
    /\ Rolled(r.bb_width, cfg.bb_period, i)
    /\ Rolled(r.bb_upper, cfg.bb_period, i)
    /\ Rolled(r.bb_mid, cfg.bb_period, i)
    /\ Rolled(r.bb_lower, cfg.bb_period, i)
    /\ Rolled(r.atr, cfg.atr_period + 1, i)
    /\ Rolled(r.vol_avg, cfg.vol_period, i)

\* run_backtest(df, config, use_trailing): the strategy is newly constructed
\* and run is entered with max_lookback = 100
InitBacktest ==
    /\ pc = "run"
    /\ cfg \in BacktestConfigs
    /\ max_lookback = DefaultMaxLookback
    /\ df_len \in BacktestLens
    /\ df = LazyColumns
    /\ i = max_lookback
    /\ row \in {[BlankRow EXCEPT !.macd = m, !.signal = g] :
                  m \in MacdVals, g \in SignalVals}
    /\ result = NoneObj
    /\ call = NoneObj
    /\ Bind(NewStrategy)
    /\ rerun = NoneObj
    /\ NoSearch

\* one pass of the for loop of run on the calculated DataFrame, no position open
BacktestFlat ==
    /\ pc = "run"
    /\ i < df_len
    /\ ~in_position
    /\ \E cur \in {r \in FlatRows : Calculated(r)} :
          Assign(FlatIteration(Locals, cur)) /\ NextBar(cur)

\* one pass of the for loop of run on the calculated DataFrame, a position open
BacktestHeld ==
    /\ pc = "run"
    /\ i < df_len
    /\ in_position
    /\ \E cur \in {r \in HeldRows : Calculated(r)} :
          Assign(HeldIteration(Locals, cur)) /\ NextBar(cur)

NextBacktest == BacktestFlat \/ BacktestHeld \/ Finish

SpecBacktest == InitBacktest /\ [][NextBacktest]_vars

----------------------------------------------------------------------------
(* Properties of run_backtest *)

\* the columns calculate_indicators fills with rolling windows
RollingColumns == {"bb_upper", "bb_mid", "bb_lower", "bb_width", "atr", "vol_avg"}

\* C13: in run_backtest, whatever the periods of the config, no iteration of
\* run (entry filter, entry signal, stop/target computation, trailing update,
\* exit decision) reads a rolling indicator (bands, band width, ATR, volume
\* average) of its bar that is undefined there
C13_NoUndefinedIndicatorUsed ==
    i > max_lookback => \A c \in RollingColumns : ~IsNaN(row[c])

\* C14: run_backtest on a DataFrame shorter than the longest lookback period
\* of the config returns no BacktestResult
C14_ShortSequenceRejected ==
    (pc = "done" /\ df_len < LongestLookback(cfg)) => result = NoneObj

----------------------------------------------------------------------------
(* backtest/optimizer.py: GridSearchOptimizer.run.  A combination of the     *)
(* grid is named by its place in combos.  What the evaluation of a           *)
(* combination does is fixed by the combination (fetch_data_fn, the          *)
(* indicators and the engine are functions of their arguments): it raises    *)
(* in one of the three calls inside the try block, or it yields a            *)
(* BacktestResult, of which the optimizer reads num_trades and the metric    *)
(* (getattr(result, self.metric), an integer here).                          *)

\* combinations in a grid at most
MaxCombos == 3

\* the penalty _calculate_score subtracts below min_trades
ScorePenalty == 1000

\* float("-inf")
NegInf == 0 - 1000000

MinTradesVals == {1, 2}
TradeCounts == {0, 1, 2}
MetricVals == {0 - 1200, 0 - 1, 0, 2}

\* the calls of the try block that can raise, lines 136, 140 and 151
Stages == {"fetch_data_fn", "calculate_indicators", "engine.run"}

\* what evaluating one combination does; a result without trades has the
\* metric 0 (_calculate_stats)
Outcomes ==
    {[error |-> st] : st \in Stages} \cup
    {o \in [num_trades : TradeCounts, metric : MetricVals] :
        o.num_trades = 0 => o.metric = 0}

\* the evaluation of a combination raises
Raises(o) == "error" \in DOMAIN o

\* GridSearchOptimizer._calculate_score
calculate_score(res, min_trades) ==
    IF res.num_trades < min_trades THEN res.metric - ScorePenalty
    ELSE res.metric

\* run, lines 119-123: the locals before the loop; i counts the combinations
\* tried, ret is what run returned or raised
NewSearch ==
    [i |-> 0, best_result |-> NoneObj, best_params |-> None, best_score |-> NegInf,
     best_df |-> NoneObj, all_results |-> <<>>, ret |-> NoneObj]

\* the DataFrame calculate_indicators returned for combination params, line 140
EnrichedFor(params) == [enriched_for |-> params]

\* the update of the best that also replaces it at an equal score
Tracked_LastWins(s, params, res, score) ==
    [s EXCEPT !.i = s.i + 1,
              !.all_results = Append(s.all_results,
                                     [params |-> params, score |-> score,
                                      num_trades |-> res.num_trades,
                                      metric |-> res.metric]),
              !.best_score = IF score >= s.best_score THEN score ELSE s.best_score,
              !.best_result = IF score >= s.best_score THEN res ELSE s.best_result,
              !.best_params = IF score >= s.best_score THEN params ELSE s.best_params,
              !.best_df = IF score >= s.best_score THEN EnrichedFor(params)
                          ELSE s.best_df]

\* run, lines 157-175: the entry of all_results and the update of the best
Tracked(s, params, res, score) ==
    [s EXCEPT !.i = s.i + 1,
              !.all_results = Append(s.all_results,
                                     [params |-> params, score |-> score,
                                      num_trades |-> res.num_trades,
                                      metric |-> res.metric]),
              !.best_score = IF score > s.best_score THEN score ELSE s.best_score,
              !.best_result = IF score > s.best_score THEN res ELSE s.best_result,
              !.best_params = IF score > s.best_score THEN params ELSE s.best_params,
              !.best_df = IF score > s.best_score THEN EnrichedFor(params)
                          ELSE s.best_df]

\* run, lines 133-175: an iteration whose try block ends without exception
Evaluated(s, params, res) ==
    Tracked(s, params, res, calculate_score(res, grid.min_trades))

\* the except clause ending the loop instead of continuing
Skipped_Breaks(s) == [s EXCEPT !.i = Len(grid.combos)]

\* run, lines 177-179: the except clause logs and continues
Skipped(s) == [s EXCEPT !.i = s.i + 1]

\* the end of run returning an empty OptimizationResult instead of raising
Raised_ReturnsEmpty(s) ==
    [s EXCEPT !.ret = [best_params |-> s.best_params,
                       best_result |-> s.best_result,
                       best_df |-> s.best_df,
                       all_results |-> s.all_results]]

\* run, line 182
Raised(s) == [s EXCEPT !.ret = [raised |-> "ValueError"]]

\* run, lines 192-197
Returns(s) ==
    [s EXCEPT !.ret = [best_params |-> s.best_params,
                       best_result |-> s.best_result,
                       best_df |-> s.best_df,
                       all_results |-> s.all_results]]

\* run after the loop, for the run on the pruned grid
Concluded(s) == IF s.best_result = NoneObj THEN Raised(s) ELSE Returns(s)

\* an optimizer and its grid; no run of the engine is followed
InitOptimizer ==
    /\ pc = "optimize"
    /\ grid \in {[min_trades |-> m, combos |-> c] :
                   m \in MinTradesVals,
                   c \in UNION {[1..n -> Outcomes] : n \in 0..MaxCombos}}
    /\ search = NewSearch
    /\ pruned = NewSearch
    /\ cfg = NoneObj /\ max_lookback = 0 /\ df = LazyColumns /\ df_len = 0
    /\ i = 0 /\ row = BlankRow /\ result = NoneObj /\ call = NoneObj
    /\ Bind(NewStrategy)
    /\ rerun = NoneObj

\* the variables of BacktestEngine.run and of the single calls
engine_vars ==
    <<cfg, max_lookback, df, df_len, i, row, in_position, position, pos, trades,
      equity_curve, current_equity, signal, strategy, result, rerun, call>>

\* one pass of the for loop of run whose try block ends without exception;
\* the run on the pruned grid evaluates the same combination
EvaluateCombo ==
    /\ pc = "optimize"
    /\ search.i < Len(grid.combos)
    /\ ~Raises(grid.combos[search.i + 1])
    /\ search' = Evaluated(search, search.i + 1, grid.combos[search.i + 1])
    /\ pruned' = Evaluated(pruned, search.i + 1, grid.combos[search.i + 1])
    /\ UNCHANGED <<pc, grid, engine_vars>>

\* one pass of the for loop of run whose try block raises: the combination
\* is not in the pruned grid
SkipCombo ==
    /\ pc = "optimize"
    /\ search.i < Len(grid.combos)
    /\ Raises(grid.combos[search.i + 1])
    /\ search' = Skipped(search)
    /\ UNCHANGED <<pc, grid, pruned, engine_vars>>

\* run, lines 181-182: the loop is over and no result is the best
RaiseNoValid ==
    /\ pc = "optimize"
    /\ search.i = Len(grid.combos)
    /\ search.best_result = NoneObj
    /\ search' = Raised(search)
    /\ pruned' = Concluded(pruned)
    /\ pc' = "raised"
    /\ UNCHANGED <<grid, engine_vars>>

\* run, lines 181-197: the loop is over, the best result is returned
ReturnBest ==
    /\ pc = "optimize"
    /\ search.i = Len(grid.combos)
    /\ search.best_result # NoneObj
    /\ search' = Returns(search)
    /\ pruned' = Concluded(pruned)
    /\ pc' = "returned"
    /\ UNCHANGED <<grid, engine_vars>>

NextOptimizer == EvaluateCombo \/ SkipCombo \/ RaiseNoValid \/ ReturnBest

SpecOptimizer == InitOptimizer /\ [][NextOptimizer]_vars

----------------------------------------------------------------------------
(* Properties of GridSearchOptimizer.run *)

\* the combinations whose evaluation yields a result
Successful == {k \in 1..Len(grid.combos) : ~Raises(grid.combos[k])}

\* the successful combinations that reach min_trades
Reaching == {k \in Successful : grid.combos[k].num_trades >= grid.min_trades}

\* C15: when run returns and a successfully evaluated combination reaches
\* min_trades, the best combination reaches min_trades, however much higher
\* the metric of a combination below the threshold is
C15_BestReachesMinTrades ==
    (pc = "returned" /\ Reaching # {}) =>
        search.ret.best_result.num_trades >= grid.min_trades

\* C16: when run returns, all_results holds one entry for every combination
\* of the grid, those whose evaluation raised included
C16_AllResultsComplete ==
    pc = "returned" =>
        /\ Len(search.ret.all_results) = Len(grid.combos)
        /\ \A k \in 1..Len(grid.combos) :
              \E e \in 1..Len(search.ret.all_results) :
                  search.ret.all_results[e].params = k

\* C17: when no combination reaches min_trades (none at all when every
\* combination raised), run ends with an error and returns nothing
C17_RaisesBelowThreshold ==
    (pc \in {"returned", "raised"} /\ Reaching = {}) =>
        /\ pc = "raised"
        /\ search.ret = [raised |-> "ValueError"]

\* C18: when the evaluation of every combination raises, run raises
\* ValueError and returns no OptimizationResult, and it does so only after
\* the loop has tried every combination
C18_AllFailedRaises ==
    /\ (pc \in {"returned", "raised"} /\ Successful = {}) =>
          /\ pc = "raised"
          /\ search.ret = [raised |-> "ValueError"]
          /\ search.i = Len(grid.combos)
    /\ (pc = "optimize" /\ Successful = {}) =>
          /\ search.ret = NoneObj
          /\ search.best_result = NoneObj
          /\ search.all_results = <<>>

\* C18 witness: run has raised on a grid of three combinations, one raising
\* in each call of the try block
C18_Witness ==
    /\ pc = "raised"
    /\ Len(grid.combos) = 3
    /\ {grid.combos[k].error : k \in 1..3} = Stages

\* the part of the locals of run that the results of the search consist of
Findings(s) ==
    [best_score |-> s.best_score, best_params |-> s.best_params,
     best_result |-> s.best_result, all_results |-> s.all_results, ret |-> s.ret]

\* C19: a combination whose fetch, indicators or simulation raises is
\* skipped.  It is never the best; the loop goes on to the next combination
\* (the search ends only with every combination tried); and the scores, the
\* statistics in all_results, the best tracked and what run returns or
\* raises are those of run on the grid without the raising combinations
C19_FailuresIsolated ==
    /\ Findings(search) = Findings(pruned)
    /\ search.best_params # None => search.best_params \in Successful
    /\ \A e \in 1..Len(search.all_results) :
          /\ search.all_results[e].params \in Successful
          /\ search.all_results[e].score =
                calculate_score(grid.combos[search.all_results[e].params],
                                grid.min_trades)
    /\ pc \in {"returned", "raised"} =>
          /\ search.i = Len(grid.combos)
          /\ {search.all_results[e].params : e \in 1..Len(search.all_results)}
                = Successful

\* C19 witness: run has returned the third combination as best, after the
\* second one raised and the first was evaluated
C19_Witness ==
    /\ pc = "returned"
    /\ Len(grid.combos) = 3
    /\ Raises(grid.combos[2])
    /\ search.ret.best_params = 3
    /\ Len(search.ret.all_results) = 2

----------------------------------------------------------------------------
(* Properties of the best combination of GridSearchOptimizer.run *)

\* the score the claim gives combination k: the metric, minus 1000 when
\* num_trades < min_trades
ClaimedScore(k) ==
    IF grid.combos[k].num_trades < grid.min_trades
    THEN grid.combos[k].metric - 1000
    ELSE grid.combos[k].metric

\* combination b is the earliest of the successful combinations with the
\* highest score
EarliestBest(b) ==
    /\ b \in Successful
    /\ \A k \in Successful :
          /\ ClaimedScore(k) <= ClaimedScore(b)
          /\ ClaimedScore(k) = ClaimedScore(b) => b <= k

\* C33: run evaluates the combinations of the product once each, in product
\* order (all_results lists the successful ones among those tried, in
\* ascending order, and run ends with all tried); it returns as best the
\* successfully evaluated combination with the highest score (metric, minus
\* 1000 below min_trades), the earliest among equal scores; best_params,
\* best_result and best_df belong to that combination
C33_BestOfProduct ==
    /\ search.i \in 0..Len(grid.combos)
    /\ Len(search.all_results) = Cardinality({k \in Successful : k <= search.i})
    /\ \A e \in 1..Len(search.all_results) :
          /\ search.all_results[e].params \in {k \in Successful : k <= search.i}
          /\ search.all_results[e].score = ClaimedScore(search.all_results[e].params)
          /\ e > 1 => search.all_results[e].params > search.all_results[e - 1].params
    /\ pc \in {"returned", "raised"} => search.i = Len(grid.combos)
    /\ pc = "returned" =>
          /\ EarliestBest(search.ret.best_params)
          /\ search.ret.best_result = grid.combos[search.ret.best_params]
          /\ search.ret.best_df = EnrichedFor(search.ret.best_params)

\* C33 witness: run has returned the second of three combinations, which
\* scores higher than the first and the same as the third
C33_Witness ==
    /\ pc = "returned"
    /\ Len(grid.combos) = 3
    /\ Successful = {1, 2, 3}
    /\ search.ret.best_params = 2
    /\ ClaimedScore(1) < ClaimedScore(2)
    /\ ClaimedScore(3) = ClaimedScore(2)
    /\ grid.combos[3] # grid.combos[2]

----------------------------------------------------------------------------
(* detect_qml_bull called on its own: df["low"] of DetectBars bars, an       *)
(* evaluation index, order and recency.                                      *)

\* bars of the DataFrame
DetectBars == 9

LowVals == {1, 2, 3}
DetectOrders == {1, 2}
DetectRecencies == {1, 3}

\* the arguments of one call; idx is the last bar or the one before it
InitDetect ==
    /\ pc = "detect_qml_bull"
    /\ df \in {[low |-> lows, high |-> lows] : lows \in [1..DetectBars -> LowVals]}
    /\ df_len = DetectBars
    /\ call \in {[idx |-> k, order |-> o, recency |-> r, ret |-> NoneObj] :
                   k \in {DetectBars - 2, DetectBars - 1},
                   o \in DetectOrders, r \in DetectRecencies}
    /\ cfg = NoneObj /\ max_lookback = 0 /\ i = 0 /\ row = BlankRow
    /\ result = NoneObj /\ rerun = NoneObj
    /\ Bind(NewStrategy)
    /\ NoSearch

\* the call detect_qml_bull(df, idx, order, recency)
DetectQmlBull ==
    /\ pc = "detect_qml_bull"
    /\ call' = [call EXCEPT
                  !.ret = [level |-> detect_qml_bull(df.low, call.idx, call.order,
                                                     call.recency)]]
    /\ pc' = "returned"
    /\ UNCHANGED <<cfg, max_lookback, df, df_len, i, row, in_position, position,
                   pos, trades, equity_curve, current_equity, signal, strategy, result,
                   rerun, optimizer_vars>>

NextDetect == DetectQmlBull

SpecDetect == InitDetect /\ [][NextDetect]_vars

----------------------------------------------------------------------------
(* Properties of detect_qml_bull *)

\* the local minima of lows (bar k is lows[k + 1]): the bars with a bar
\* before and a bar after them that are strictly lower than every other bar
\* at most `order` places away
LocalMinima(lows, order) ==
    {k \in 1..(Len(lows) - 2) :
        \A j \in 0..(Len(lows) - 1) :
            (j # k /\ j - k <= order /\ k - j <= order) => lows[k + 1] < lows[j + 1]}

\* the most recent element of the set of bars m
Latest(m) == CHOOSE k \in m : \A j \in m : j <= k

\* the sweep low of lows at evaluation index idx, given its local minima m:
\* with e3 the latest, e2 the one before it and e1 the one before that, the
\* low of e2 when e2 < e1, e3 > e2 and idx - e3 < recency; None otherwise
SweepLow(lows, m, idx, recency) ==
    IF Cardinality(m) < 3 THEN None
    ELSE LET e3 == Latest(m)
             e2 == Latest(m \ {e3})
             e1 == Latest(m \ {e3, e2})
         IN  IF /\ lows[e2 + 1] < lows[e1 + 1]
                /\ lows[e3 + 1] > lows[e2 + 1]
                /\ idx - e3 < recency
             THEN lows[e2 + 1]
             ELSE None

\* C20: detect_qml_bull at evaluation index idx returns the low of e2 exactly
\* when the lows up to and including idx hold at least three local minima
\* and the three most recent, e1, e2, e3, satisfy e2 < e1, e3 > e2 and
\* idx - index(e3) < recency; otherwise it returns None.  The bars after idx
\* are not read.
C20_DetectQmlBull ==
    pc = "returned" =>
        call.ret.level =
            SweepLow(SubSeq(df.low, 1, call.idx + 1),
                     LocalMinima(SubSeq(df.low, 1, call.idx + 1), call.order),
                     call.idx, call.recency)

\* C20 witness: a sweep low returned with order 2, from minima three bars
\* apart
C20_Witness ==
    /\ pc = "returned"
    /\ call.order = 2
    /\ call.ret.level # None

----------------------------------------------------------------------------
(* core/indicators.py: the rolling columns of calculate_indicators, on its   *)
(* own.  A Series is a sequence whose elements are exact: a fraction [n, d], *)
(* a number base + coef * sqrt(radicand) where a standard deviation enters,  *)
(* or NaNValue.  Index idx of the source is element idx + 1.  The ewm        *)
(* columns (ema, macd, signal) have no undefined head and are left out.      *)

\* bars of the DataFrame
IndicatorBars == 4

\* (low, high, close) of a bar, and its volume
BarVals == {<<1, 2, 1>>, <<2, 3, 3>>, <<1, 3, 2>>}
PeriodVals == {1, 2, 3}

\* float NaN as an element of a Series of exact values
NaNValue == [nan |-> TRUE]

\* a column of integers as a Series
AsSeries(xs) == [k \in 1..Len(xs) |-> RInt(xs[k])]

\* Series.shift(1)
shift(series) ==
    [k \in 1..Len(series) |-> IF k = 1 THEN NaNValue ELSE series[k - 1]]

\* a - b on elements
VSub(a, b) == IF a = NaNValue \/ b = NaNValue THEN NaNValue ELSE RSub(a, b)

\* abs(a) on an element
VAbs(a) == IF a = NaNValue THEN NaNValue ELSE Frac(Abs(a.n), a.d)

\* np.maximum(a, b) on elements: NaN when either is NaN
np_maximum(a, b) ==
    IF a = NaNValue \/ b = NaNValue THEN NaNValue ELSE RMax(a, b)

\* the window of rolling(period) that ends at element k holds `period`
\* observations (min_periods = period; a NaN is not an observation)
Observed(series, period, k) ==
    /\ k - period + 1 >= 1
    /\ \A j \in (k - period + 1)..k : series[j] # NaNValue

\* the mean of the observed window that ends at element k
WindowMean(series, period, k) ==
    RDiv(RSum(SubSeq(series, k - period + 1, k)), RInt(period))

\* Series.rolling(period).mean()
rolling_mean(series, period) ==
    [k \in 1..Len(series) |->
        IF Observed(series, period, k) THEN WindowMean(series, period, k)
        ELSE NaNValue]

\* the sum of the squared distances of the window's elements from m
SquareSum(series, period, k, m) ==
    RSum([j \in 1..period |->
            RMul(RSub(series[k - period + j], m), RSub(series[k - period + j], m))])

\* Series.rolling(period).std(): ddof = 1, NaN for a window of one
\* observation; the value is sqrt(radicand)
rolling_std(series, period) ==
    [k \in 1..Len(series) |->
        IF Observed(series, period, k) /\ period - 1 > 0
        THEN [radicand |-> RDiv(SquareSum(series, period, k,
                                          WindowMean(series, period, k)),
                                RInt(period - 1))]
        ELSE NaNValue]

\* middle + coef * std on elements
Band(middle, coef, std) ==
    IF middle = NaNValue \/ std = NaNValue THEN NaNValue
    ELSE [base |-> middle, coef |-> RInt(coef), radicand |-> std.radicand]

\* calculate_bollinger_bands(series, period, std_dev)
calculate_bollinger_bands(series, period, std_dev) ==
    [upper |-> [k \in 1..Len(series) |->
                  Band(rolling_mean(series, period)[k], std_dev,
                       rolling_std(series, period)[k])],
     middle |-> rolling_mean(series, period),
     lower |-> [k \in 1..Len(series) |->
                  Band(rolling_mean(series, period)[k], 0 - std_dev,
                       rolling_std(series, period)[k])]]

\* ((upper - lower) / middle) * 100 on elements (middle is a mean of prices,
\* not 0)
Width(upper, middle, lower) ==
    IF upper = NaNValue \/ middle = NaNValue \/ lower = NaNValue THEN NaNValue
    ELSE [base |-> RMul(RDiv(RSub(upper.base, lower.base), middle), RInt(100)),
          coef |-> RMul(RDiv(RSub(upper.coef, lower.coef), middle), RInt(100)),
          radicand |-> upper.radicand]

\* calculate_bollinger_width(upper, middle, lower)
calculate_bollinger_width(upper, middle, lower) ==
    [k \in 1..Len(middle) |-> Width(upper[k], middle[k], lower[k])]

\* calculate_atr, lines 135-141: true_range
true_range(high, low, prev_close) ==
    [k \in 1..Len(high) |->
        np_maximum(VSub(high[k], low[k]),
                   np_maximum(VAbs(VSub(high[k], prev_close[k])),
                              VAbs(VSub(low[k], prev_close[k]))))]

\* calculate_atr(high, low, close, period)
calculate_atr(high, low, close, period) ==
    rolling_mean(true_range(high, low, shift(close)), period)

\* calculate_volume_sma(volume, period)
calculate_volume_sma(volume, period) == rolling_mean(volume, period)

\* Series.ewm(span=span, adjust=False).mean() at element k: the first element
\* is the series', each later one alpha * x + (1 - alpha) * the one before,
\* alpha = 2 / (span + 1)
RECURSIVE EwmAt(_, _, _)
EwmAt(series, span, k) ==
    IF k = 1 THEN series[1]
    ELSE RAdd(RMul(Frac(2, span + 1), series[k]),
              RMul(Frac(span - 1, span + 1), EwmAt(series, span, k - 1)))

\* calculate_ema(series, period)
calculate_ema(series, period) ==
    [k \in 1..Len(series) |-> EwmAt(series, period, k)]

\* the difference of two series of the same length
SeriesSub(a, b) == [k \in 1..Len(a) |-> RSub(a[k], b[k])]

\* calculate_macd, lines 62-65: macd_line
macd_line(series, fast_period, slow_period) ==
    SeriesSub(calculate_ema(series, fast_period), calculate_ema(series, slow_period))

\* calculate_macd(series, fast_period, slow_period, signal_period); line is
\* macd_line
calculate_macd(line, signal_period) ==
    [macd |-> line, signal |-> calculate_ema(line, signal_period),
     macd_hist |-> SeriesSub(line, calculate_ema(line, signal_period))]

\* calculate_indicators, lines 223-228: the ewm columns
EwmFrame(close, ema_period, macd_fast, macd_slow, macd_signal) ==
    [ema |-> calculate_ema(close, ema_period)] @@
    calculate_macd(macd_line(close, macd_fast, macd_slow), macd_signal)

\* calculate_indicators, lines 232-246: bands is what
\* calculate_bollinger_bands returned
RollingFrame(bands, high, low, close, volume, atr_period, vol_period) ==
    [bb_upper |-> bands.upper, bb_mid |-> bands.middle, bb_lower |-> bands.lower,
     bb_width |-> calculate_bollinger_width(bands.upper, bands.middle, bands.lower),
     atr |-> calculate_atr(high, low, close, atr_period),
     vol_avg |-> calculate_volume_sma(volume, vol_period)]

\* the DataFrame and the periods of one call
InitIndicators ==
    /\ pc = "calculate_indicators"
    /\ call \in {[bars |-> b, volume |-> v, bb_period |-> bp, bb_std |-> 2,
                  atr_period |-> ap, vol_period |-> vp, ret |-> NoneObj] :
                   b \in [1..IndicatorBars -> BarVals],
                   v \in [1..IndicatorBars -> VolumeVals],
                   bp \in PeriodVals, ap \in PeriodVals, vp \in PeriodVals}
    /\ df = LazyColumns /\ df_len = IndicatorBars
    /\ cfg = NoneObj /\ max_lookback = 0 /\ i = 0 /\ row = BlankRow
    /\ result = NoneObj /\ rerun = NoneObj
    /\ Bind(NewStrategy)
    /\ NoSearch

\* the column of the bars' low (c = 1), high (c = 2) or close (c = 3)
Column(bars, c) == AsSeries([k \in 1..Len(bars) |-> bars[k][c]])

\* the call calculate_indicators(df, bb_period, bb_std, atr_period, vol_period)
CalculateIndicators ==
    /\ pc = "calculate_indicators"
    /\ call' = [call EXCEPT
                  !.ret = RollingFrame(
                              calculate_bollinger_bands(Column(call.bars, 3),
                                                        call.bb_period, call.bb_std),
                              Column(call.bars, 2), Column(call.bars, 1),
                              Column(call.bars, 3), AsSeries(call.volume),
                              call.atr_period, call.vol_period)]
    /\ pc' = "returned"
    /\ UNCHANGED <<cfg, max_lookback, df, df_len, i, row, in_position, position,
                   pos, trades, equity_curve, current_equity, signal, strategy, result,
                   rerun, optimizer_vars>>

NextIndicators == CalculateIndicators

SpecIndicators == InitIndicators /\ [][NextIndicators]_vars

----------------------------------------------------------------------------
(* Properties of calculate_indicators *)

\* of Series s exactly the indices 0 .. period - 2 are undefined
UndefinedHead(s, period) ==
    \A idx \in 0..(Len(s) - 1) : (s[idx + 1] = NaNValue) <=> (idx < period - 1)

\* C21: in every rolling series of calculate_indicators (bands and band
\* width with bb_period, ATR with atr_period, volume average with
\* vol_period) exactly the indices below period - 1 are undefined, and index
\* period - 1 is the first defined one
C21_RollingHead ==
    pc = "returned" =>
        /\ UndefinedHead(call.ret.bb_upper, call.bb_period)
        /\ UndefinedHead(call.ret.bb_mid, call.bb_period)
        /\ UndefinedHead(call.ret.bb_lower, call.bb_period)
        /\ UndefinedHead(call.ret.bb_width, call.bb_period)
        /\ UndefinedHead(call.ret.atr, call.atr_period)
        /\ UndefinedHead(call.ret.vol_avg, call.vol_period)

----------------------------------------------------------------------------
(* BacktestEngine.run over a DataFrame long enough for a position to be      *)
(* opened, closed, and a second one opened and closed.                       *)

\* bars the loop of the long runs walks
LongRun == 4

\* one execution of run, without pattern gating, over LongRun bars after a
\* warm-up that leaves a bar before the first one walked
InitLongRun ==
    /\ pc = "run"
    /\ cfg \in {c \in Configs : ~c.use_qml}
    /\ max_lookback \in {k \in Lookbacks : k >= 1}
    /\ df_len = max_lookback + LongRun
    /\ df = LazyColumns
    /\ i = max_lookback
    /\ row \in (IF max_lookback >= 1
                THEN {[BlankRow EXCEPT !.macd = m, !.signal = g] :
                        m \in MacdVals, g \in SignalVals}
                ELSE {BlankRow})
    /\ result = NoneObj
    /\ call = NoneObj
    /\ NoSearch
    /\ Bind(NewStrategy)
    /\ rerun = NoneObj

SpecLongRun == InitLongRun /\ [][Next]_vars

----------------------------------------------------------------------------
(* Properties of position management in BacktestEngine.run.  In a step that *)
(* manages the open position, row' is the bar, row the bar before it and    *)
(* pos' the position as passed to check_exit_conditions.                    *)

\* the step manages the open position on bar i
Manages == in_position /\ i' = i + 1

\* the stop-loss condition of position p holds on bar r
StopHit(p, r) ==
    IF p.side = "long" THEN FLe(r.low, p.sl) ELSE FGe(r.high, p.sl)

\* the take-profit condition of position p holds on bar r
TargetHit(p, r) ==
    IF p.side = "long" THEN FGe(r.high, p.tp) ELSE FLe(r.low, p.tp)

\* the oscillator crosses its signal line against position p between bar
\* prv (index idx - 1) and bar r (index idx)
ReverseCross(p, r, prv, idx) ==
    /\ idx >= 1
    /\ IF p.side = "long"
       THEN FLt(r.macd, r.signal) /\ FGe(prv.macd, prv.signal)
       ELSE FGt(r.macd, r.signal) /\ FLe(prv.macd, prv.signal)

\* the band position p exits at: the upper for a long, the lower for a short
ExitBand(p, r) == IF p.side = "long" THEN r.bb_upper ELSE r.bb_lower

\* bar r touches the exit band of position p
BandTouch(p, r) ==
    IF p.side = "long" THEN FGe(r.high, r.bb_upper) ELSE FLe(r.low, r.bb_lower)

\* what the claim says check_exit_conditions returns for position p on bar r
FirstExit(p, r, prv, idx) ==
    IF StopHit(p, r) THEN ExitTuple(TRUE, p.sl, "stop_loss")
    ELSE IF TargetHit(p, r) THEN ExitTuple(TRUE, p.tp, "take_profit")
    ELSE IF ReverseCross(p, r, prv, idx) THEN ExitTuple(TRUE, r.close, "macd_reverse")
    ELSE IF BandTouch(p, r) THEN ExitTuple(TRUE, ExitBand(p, r), "bb_touch")
    ELSE ExitTuple(FALSE, None, "")

\* the step records position p as a trade closed on bar i as x says
RecordsExit(p, x) ==
    /\ ~in_position'
    /\ trades' = Append(trades, LastTrade')
    /\ LastTrade'.exit_idx = i
    /\ LastTrade'.exit_price = x.exit_price
    /\ LastTrade'.exit_reason = x.exit_reason

\* C22: check_exit_conditions returns the first condition that holds in the
\* order stop_loss (price = stop), take_profit (price = target),
\* macd_reverse (cross against the side, price = close), bb_touch (long:
\* high >= upper band, short: low <= lower band, price = the band); when
\* none holds it returns no exit and no price, and the position stays open
C22_FirstExitInOrder ==
    [][Manages =>
          /\ check_exit_conditions(row', row, i, pos'.side, pos'.entry_price,
                                   pos'.sl, pos'.tp) = FirstExit(pos', row', row, i)
          /\ IF FirstExit(pos', row', row, i).should_exit
             THEN RecordsExit(pos', FirstExit(pos', row', row, i))
             ELSE in_position' /\ position' = pos' /\ trades' = trades]_vars

\* C22 witness: a position closed by bb_touch on a bar whose extreme equals
\* the band, after a bar on which no condition held
C22_Witness ==
    /\ trades # <<>>
    /\ LastTrade.exit_idx = i - 1
    /\ LastTrade.exit_reason = "bb_touch"
    /\ LastTrade.exit_price = (IF LastTrade.side = "long" THEN row.high ELSE row.low)
    /\ LastTrade.exit_idx >= LastTrade.entry_idx + 2

\* what update_trailing_stop returns for the open position on the bar of the step
TrailingUpdate ==
    update_trailing_stop(row', position.side, position.entry_price,
                         position.sl, position.reached_1to1)

\* the step records a trade closed by the stop
StoppedOut == trades' # trades /\ LastTrade'.exit_reason = "stop_loss"

\* C23: on every bar with a position open and trailing enabled, the stop and
\* the 1:1 flag are updated before the exits are evaluated: the stop tested
\* against the bar, and used as the stop_loss exit price, is the one after
\* the bar's trailing update
C23_TrailingBeforeExit ==
    [][(Manages /\ cfg.use_trailing) =>
          /\ pos'.sl = TrailingUpdate.sl
          /\ pos'.reached_1to1 = TrailingUpdate.reached
          /\ StoppedOut <=> StopHit([position EXCEPT !.sl = TrailingUpdate.sl], row')
          /\ StoppedOut => LastTrade'.exit_price = TrailingUpdate.sl]_vars

\* C23 witness: a long managed for the first time on the last bar, which set
\* the 1:1 flag, tightened the stop to the mid band above the entry and
\* closed the position at that stop
C23_Witness ==
    /\ cfg.use_trailing
    /\ trades # <<>>
    /\ LastTrade.entry_idx = i - 2
    /\ LastTrade.exit_idx = i - 1
    /\ LastTrade.side = "long"
    /\ LastTrade.exit_reason = "stop_loss"
    /\ pos.reached_1to1
    /\ LastTrade.exit_price = row.bb_mid
    /\ LastTrade.exit_price > LastTrade.entry_price

\* the 1:1 level of Signal sig: entry plus (long) or minus (short) its risk
OneToOne(sig) ==
    IF sig.side = "long"
    THEN FAdd(sig.entry_price, SignalRisk(sig))
    ELSE FSub(sig.entry_price, SignalRisk(sig))

\* bar r reaches level on the side of Signal sig
Reaches(sig, r, level) ==
    IF sig.side = "long" THEN FGe(r.high, level) ELSE FLe(r.low, level)

\* C24: on every bar up to and including the one that first sets the 1:1
\* flag, the stop passed to update_trailing_stop is the stop of the Signal
\* that opened the position, so the level tested is the Signal's entry plus
\* (long) or minus (short) the Signal's risk
C24_OneToOneFromSignal ==
    [][(Manages /\ cfg.use_trailing /\ ~position.reached_1to1) =>
          /\ signal # NoneObj
          /\ position.side = signal.side
          /\ position.entry_price = signal.entry_price
          /\ position.sl = signal.stop_loss
          /\ pos'.reached_1to1 <=> Reaches(signal, row', OneToOne(signal))]_vars

\* C24 witness: a short whose first managed bar reached the Signal's 1:1
\* level, set the flag and moved the stop away from the Signal's stop
C24_Witness ==
    /\ cfg.use_trailing
    /\ pos # NoneObj /\ signal # NoneObj
    /\ pos.entry_idx = i - 2
    /\ pos.side = "short"
    /\ pos.reached_1to1
    /\ pos.sl # signal.stop_loss
    /\ Reaches(signal, row, OneToOne(signal))

\* the step opens a position
Opens == ~in_position /\ in_position'

\* C25: within one position the 1:1 flag, once true, is true on every later
\* bar, the closing one included; every position opened starts with the flag
\* false and with the stop and target of the Signal generate_signal returned
\* on its bar, whatever the position before it was
C25_FlagPerPosition ==
    [][/\ (Manages /\ position.reached_1to1) =>
             /\ pos'.reached_1to1
             /\ in_position' => position'.reached_1to1
       /\ Opens =>
             /\ signal' = generate_signal(cfg, strategy, df, row', row, i).signal
             /\ signal' # NoneObj
             /\ ~position'.reached_1to1
             /\ position'.sl = signal'.stop_loss
             /\ position'.tp = signal'.take_profit]_vars

\* C25 witness: a position just opened, flag false, after a position that
\* was closed with the flag set and another stop
C25_Witness ==
    /\ in_position /\ Len(trades) = 1
    /\ position.entry_idx = i - 1
    /\ pos # NoneObj /\ pos.reached_1to1
    /\ ~position.reached_1to1
    /\ position.sl # pos.sl

----------------------------------------------------------------------------
(* Properties of the trade list of BacktestEngine.run *)

\* every trade of list ts is closed on a bar after its entry bar and opened
\* on a bar after the exit bar of the trade before it
Spaced(ts) ==
    /\ \A k \in 1..Len(ts) : ts[k].exit_idx > ts[k].entry_idx
    /\ \A k \in 2..Len(ts) : ts[k].entry_idx > ts[k - 1].exit_idx

\* C26: every trade recorded by run has exit_idx > entry_idx, and every
\* trade's entry_idx is strictly greater than the exit_idx of the trade
\* before it; the same holds of the trades of the result
C26_TradesSpaced ==
    /\ Spaced(trades)
    /\ result # NoneObj => Spaced(result.trades)

\* C26 witness: two trades returned, the second opened on the bar right
\* after the first was closed and closed on the bar after its entry
C26_Witness ==
    /\ result # NoneObj
    /\ Len(result.trades) = 2
    /\ result.trades[2].entry_idx = result.trades[1].exit_idx + 1
    /\ result.trades[2].exit_idx = result.trades[2].entry_idx + 1

\* list s is list t, or t without its last element
GrownByOne(s, t) ==
    /\ Len(t) \in {Len(s), Len(s) + 1}
    /\ SubSeq(t, 1, Len(s)) = s

\* C27: the trade list and the equity curve of run only grow by appending,
\* both by one element in the same step; what was recorded is neither
\* changed nor removed later, the returned result holds the lists as they
\* are, and exit indices are strictly increasing along the trade list
C27_AppendOnly ==
    [][/\ GrownByOne(trades, trades')
       /\ GrownByOne(equity_curve, equity_curve')
       /\ Len(trades') - Len(trades) = Len(equity_curve') - Len(equity_curve)
       /\ \A k \in 2..Len(trades') : trades'[k].exit_idx > trades'[k - 1].exit_idx
       /\ result' # NoneObj =>
             /\ result'.trades = trades'
             /\ result'.equity_curve = equity_curve']_vars

\* C27 witness: a second trade recorded after a first one, by another exit
\* and with another equity value
C27_Witness ==
    /\ pc = "run"
    /\ Len(trades) = 2
    /\ trades[1].exit_reason # trades[2].exit_reason
    /\ equity_curve[2] # equity_curve[3]

\* the indices of range(max_lookback, len(df))
Walked == max_lookback..(df_len - 1)

\* C28: run evaluates the bars at indices max_lookback .. len(df) - 1, in
\* increasing order and each once: a step that reads a bar reads bar i, a
\* walked index, and moves to i + 1; every trade has its entry and exit on
\* walked indices; when len(df) <= max_lookback the run returns at once,
\* with zero trades
C28_WalkedBars ==
    [][/\ (i' # i \/ row' # row) =>
             /\ pc = "run" /\ pc' = "run"
             /\ i \in Walked
             /\ i' = i + 1
       /\ pc' = "done" => i = (IF df_len > max_lookback THEN df_len ELSE max_lookback)
       /\ \A k \in 1..Len(trades') :
             /\ trades'[k].entry_idx \in Walked
             /\ trades'[k].exit_idx \in Walked
       /\ df_len <= max_lookback =>
             /\ pc' = "done"
             /\ result'.num_trades = 0
             /\ result'.trades = <<>>]_vars

\* C28 witness: a run returned whose one trade was opened on bar
\* max_lookback and closed on bar len(df) - 1
C28_Witness ==
    /\ pc = "done"
    /\ Len(result.trades) = 1
    /\ result.trades[1].entry_idx = max_lookback
    /\ result.trades[1].exit_idx = df_len - 1

\* (to - from) / entry * 100
PercentMove(from, to, entry) ==
    RMul(RDiv(RSub(RInt(to), RInt(from)), RInt(entry)), RInt(100))

\* the pnl_pct the claim gives trade t
ClaimedPnl(t) ==
    IF t.side = "long"
    THEN PercentMove(t.entry_price, t.exit_price, t.entry_price)
    ELSE PercentMove(t.exit_price, t.entry_price, t.entry_price)

\* trades ts and equity curve curve (curve[k + 1] is the source's
\* equity_curve[k]) agree with the claim
Compounded(ts, curve) ==
    \A k \in 1..Len(ts) :
        /\ ts[k].pnl_pct = ClaimedPnl(ts[k])
        /\ curve[k + 1] = RMul(curve[k], RAdd(RInt(1), RDiv(ts[k].pnl_pct, RInt(100))))

\* C29: the k-th closed trade has pnl_pct = (exit - entry) / entry * 100
\* (long) or (entry - exit) / entry * 100 (short), and equity_curve[k] =
\* equity_curve[k - 1] * (1 + pnl_pct / 100); in the result total_pnl_pct is
\* the sum of the trades' pnl_pct and num_trades the length of the trade list
C29_PnlAndEquity ==
    /\ Compounded(trades, equity_curve)
    /\ current_equity = equity_curve[Len(equity_curve)]
    /\ result # NoneObj =>
          /\ Compounded(result.trades, result.equity_curve)
          /\ result.total_pnl_pct =
                RSum([k \in 1..Len(result.trades) |-> result.trades[k].pnl_pct])
          /\ result.num_trades = Len(result.trades)
          /\ result.trades = trades

\* C29 witness: a result of two trades, a long and a short, one won and one
\* lost
C29_Witness ==
    /\ result # NoneObj
    /\ result.num_trades = 2
    /\ result.trades[1].side # result.trades[2].side
    /\ RLt(RInt(0), result.trades[1].pnl_pct)
    /\ RLt(result.trades[2].pnl_pct, RInt(0))
    /\ result.trades[2].side = "short"

\* position q is position p but for its stop and its 1:1 flag
SameButStop(p, q) ==
    [q EXCEPT !.sl = p.sl, !.reached_1to1 = p.reached_1to1] = p

\* C30: while a position is open its entry index, entry price, side and
\* take-profit never change, through the bar that closes it and into the
\* trade recorded; only the stop and the 1:1 flag can change, and with
\* use_trailing disabled they do not change either
C30_PositionFrame ==
    [][/\ Manages =>
             /\ SameButStop(position, pos')
             /\ ~cfg.use_trailing => pos' = position
             /\ in_position' => position' = pos'
             /\ ~in_position' =>
                   /\ LastTrade'.entry_idx = position.entry_idx
                   /\ LastTrade'.entry_price = position.entry_price
                   /\ LastTrade'.side = position.side
       /\ (in_position /\ ~Manages) => position' = position]_vars

\* C30 witness: with use_trailing disabled, a position managed on a bar that
\* reached the 1:1 level of its Signal, its flag false and its stop the
\* Signal's
C30_Witness ==
    /\ ~cfg.use_trailing
    /\ ManagedOnRow
    /\ signal # NoneObj
    /\ Reaches(signal, row, OneToOne(signal))
    /\ ~pos.reached_1to1
    /\ pos.sl = signal.stop_loss
    /\ pos.tp = signal.take_profit

----------------------------------------------------------------------------
(* Properties of the exit price *)

\* C31: every recorded trade's exit price lies within [low, high] of its
\* exit bar, whatever the exit reason (row is the exit bar of the trade
\* recorded last when that trade was closed on bar i - 1)
C31_ExitWithinBar ==
    (trades # <<>> /\ LastTrade.exit_idx = i - 1) =>
        /\ FLe(row.low, LastTrade.exit_price)
        /\ FLe(LastTrade.exit_price, row.high)

----------------------------------------------------------------------------
(* Two bar sequences that agree on their first bars: the indicator pipeline  *)
(* on both, and run on both.  `agree` is the number of bars, from index 0,   *)
(* on which the second sequence equals the first; the second ends there or   *)
(* goes on with other values.  The second run is followed over the bars it   *)
(* shares with the first.                                                    *)

\* the ewm spans of the calls: ema_period, macd_fast, macd_slow, macd_signal
EwmSpans == [ema_period |-> 3, macd_fast |-> 1, macd_slow |-> 2, macd_signal |-> 2]

\* the volume columns of the calls
PairVolumes == {Periodic(<<1, 1, 2>>, IndicatorBars)}

\* the first n elements of sequence xs
Head_n(xs, n) == SubSeq(xs, 1, n)

\* sequence xs with every element after the n-th replaced by v
Retailed(xs, n, v) == [k \in 1..Len(xs) |-> IF k <= n THEN xs[k] ELSE v]

\* the bar sequences that agree with bars on the first n: the first n bars
\* alone, and bars with another tail
Agreeing(bars, n) ==
    {Head_n(bars, n)} \cup {Retailed(bars, n, b) : b \in BarVals}

\* the low / high columns that agree with d on the first n bars
AgreeingColumns(d, n) ==
    IF Len(d.low) = 0 THEN {d}
    ELSE {[low |-> Head_n(d.low, n), high |-> Head_n(d.high, n)]} \cup
         {[low |-> Retailed(d.low, n, v), high |-> Retailed(d.high, n, v)] :
            v \in {1, 6}}

\* calculate_indicators, lines 220-248, on bars and volume
Frame(bars, volume, c) ==
    EwmFrame(Column(bars, 3), c.ema_period, c.macd_fast, c.macd_slow, c.macd_signal) @@
    RollingFrame(calculate_bollinger_bands(Column(bars, 3), c.bb_period, c.bb_std),
                 Column(bars, 2), Column(bars, 1), Column(bars, 3),
                 AsSeries(volume), c.atr_period, c.vol_period)

\* two calls of calculate_indicators
InitPairOfFrames ==
    /\ pc = "calculate_indicators"
    /\ \E b \in [1..IndicatorBars -> BarVals], n \in 1..IndicatorBars :
          call \in {EwmSpans @@
                    [bars |-> b, volume |-> v, other_bars |-> o, agree |-> n,
                     bb_period |-> bp, bb_std |-> 2, atr_period |-> ap,
                     vol_period |-> bp, ret |-> NoneObj, other_ret |-> NoneObj] :
                      v \in PairVolumes, o \in Agreeing(b, n),
                      bp \in PeriodVals, ap \in PeriodVals}
    /\ df = LazyColumns /\ df_len = IndicatorBars
    /\ cfg = NoneObj /\ max_lookback = 0 /\ i = 0 /\ row = BlankRow
    /\ result = NoneObj /\ rerun = NoneObj
    /\ Bind(NewStrategy)
    /\ NoSearch

\* two executions of run, with pattern gating or the base configuration, the
\* second on columns that agree with df on the first `agree` bars
InitPairOfRuns ==
    /\ Inputs
    /\ cfg.use_qml \/ cfg = BaseConfig
    /\ Bind(NewStrategy)
    /\ \E n \in max_lookback..df_len :
          rerun \in {[run |-> NewRun(NewStrategy), result |-> NoneObj,
                      df |-> d, agree |-> n] : d \in AgreeingColumns(df, n)}

InitPrefix == InitPairOfFrames \/ InitPairOfRuns

\* calculate_indicators on both sequences
CalculatePair ==
    /\ pc = "calculate_indicators"
    /\ call' = [call EXCEPT
                  !.ret = Frame(call.bars, call.volume, call),
                  !.other_ret = Frame(call.other_bars,
                                      Head_n(call.volume, Len(call.other_bars)),
                                      call)]
    /\ pc' = "returned"
    /\ UNCHANGED <<cfg, max_lookback, df, df_len, i, row, in_position, position,
                   pos, trades, equity_curve, current_equity, signal, strategy,
                   result, rerun, optimizer_vars>>

\* run, lines 106-172: the body of the for loop on bar i of columns d
IterationOn(d, run, cur) ==
    IF ~run.in_position
    THEN Opened(run, i, generate_signal(cfg, run.strategy, d, cur, row, i))
    ELSE HeldIteration(run, cur)

\* the move to the next bar, the second execution reading the same bar while
\* the sequences agree
NextBarOfPair(cur) ==
    /\ row' = cur
    /\ i' = i + 1
    /\ rerun' = IF i < rerun.agree
                THEN [rerun EXCEPT !.run = IterationOn(rerun.df, rerun.run, cur)]
                ELSE rerun
    /\ UNCHANGED <<pc, cfg, max_lookback, df, df_len, result, call, optimizer_vars>>

\* one pass of the for loop, no position open, in both executions
PairFlat ==
    /\ pc = "run"
    /\ i < df_len
    /\ ~in_position
    /\ \E cur \in FlatRows : Assign(FlatIteration(Locals, cur)) /\ NextBarOfPair(cur)

\* one pass of the for loop, a position open
PairHeld ==
    /\ pc = "run"
    /\ i < df_len
    /\ in_position
    /\ \E cur \in HeldRows : Assign(HeldIteration(Locals, cur)) /\ NextBarOfPair(cur)

NextPrefix == CalculatePair \/ PairFlat \/ PairHeld \/ Finish

SpecPrefix == InitPrefix /\ [][NextPrefix]_vars

----------------------------------------------------------------------------
(* Properties of the two sequences *)

\* the trades of list ts closed on one of the first n bars
ClosedWithin(ts, n) == SelectSeq(ts, LAMBDA t : t.exit_idx < n)

\* the columns of the two frames are equal on the first n bars
FramesAgree(f, g, n) ==
    /\ DOMAIN f = DOMAIN g
    /\ \A c \in DOMAIN f : \A k \in 1..n : f[c][k] = g[c][k]

\* C32: decisions at bar i use only bars 0 .. i.  For two bar sequences that
\* agree on their first bars, calculate_indicators returns the same values
\* on those bars, and run (pattern detector included) records the same
\* trades closed on those bars and has the same open position after each of
\* them
C32_NoLookAhead ==
    /\ pc = "returned" => FramesAgree(call.ret, call.other_ret, call.agree)
    /\ (pc \in {"run", "done"} /\ rerun # NoneObj) =>
          /\ ClosedWithin(trades, rerun.agree) = rerun.run.trades
          /\ i <= rerun.agree =>
                /\ in_position = rerun.run.in_position
                /\ position = rerun.run.position

\* C32 witness: with pattern gating and a second sequence of the same length
\* with another tail, the first run closed its position on a bar past the
\* shared ones; the second run, followed up to there, still holds it
C32_Witness ==
    /\ pc = "run" /\ rerun # NoneObj
    /\ cfg.use_qml
    /\ Len(rerun.df.low) = df_len
    /\ trades # <<>>
    /\ LastTrade.exit_idx >= rerun.agree
    /\ rerun.run.in_position

----------------------------------------------------------------------------
(* Properties of the pattern level behind an extreme stop *)

\* the sweep level the detector finds on bar idx for a position of side s
OwnBarLevel(s, idx) ==
    IF s = "long" THEN detect_qml_bull(df.low, idx, cfg.qml_order, cfg.qml_recency)
    ELSE detect_qml_bear(df.high, idx, cfg.qml_order, cfg.qml_recency)

\* the price the stop of Signal sig is measured from on bar idx: the sweep
\* level of that bar with pattern gating and the extreme stop, the entry
\* price otherwise
StopBase(sig, idx) ==
    IF cfg.use_qml /\ cfg.use_qml_extreme_sl THEN OwnBarLevel(sig.side, idx)
    ELSE sig.entry_price

\* stop and target of Signal sig are those measured from base with ATR atr
PlacedFrom(sig, base, atr) ==
    IF sig.side = "long"
    THEN /\ sig.stop_loss = FSub(base, FMul(atr, cfg.atr_sl_mult))
         /\ sig.take_profit = FAdd(sig.entry_price,
                                   FMul(FSub(sig.entry_price, sig.stop_loss), cfg.rr_ratio))
    ELSE /\ sig.stop_loss = FAdd(base, FMul(atr, cfg.atr_sl_mult))
         /\ sig.take_profit = FSub(sig.entry_price,
                                   FMul(FSub(sig.stop_loss, sig.entry_price), cfg.rr_ratio))

\* C34: the sweep level behind an extreme stop is the level detected on the
\* Signal's own bar in the same run; whatever levels the strategy object
\* remembers from an earlier bar, an earlier run or the opposite side, the
\* stop and target of a position opened on bar i are measured from the level
\* of bar i (from the entry price without pattern gating)
C34_LevelOfOwnBar ==
    [][Opens =>
          /\ cfg.use_qml => OwnBarLevel(signal'.side, i) # None
          /\ PlacedFrom(signal', StopBase(signal', i), row'.atr)
          /\ position'.sl = signal'.stop_loss
          /\ position'.tp = signal'.take_profit]_vars

\* C34 witness: a short just opened with an extreme stop, by a strategy
\* object that came with remembered levels (the long side's is still there)
\* and whose remembered short level was another than the bar's
C34_Witness ==
    /\ in_position /\ position.entry_idx = i - 1
    /\ cfg.use_qml /\ cfg.use_qml_extreme_sl
    /\ position.side = "short"
    /\ strategy.last_qml_bull = StaleStrategy.last_qml_bull
    /\ strategy.last_qml_bear # StaleStrategy.last_qml_bear
    /\ position.sl = FAdd(strategy.last_qml_bear, FMul(row.atr, cfg.atr_sl_mult))

----------------------------------------------------------------------------
(* calculate_indicators as the optimizer calls it: fetch_data_fn returns    *)
(* the same DataFrame object for every combination, and each combination    *)
(* enriches it with its own periods.  A DataFrame is a record of columns.   *)

\* combinations tried on the fetched DataFrame
ReuseCombos == 2

\* the DataFrame fetch_data_fn returns: the columns of bars and volume
Fetched(bars, volume) ==
    [low |-> Column(bars, 1), high |-> Column(bars, 2), close |-> Column(bars, 3),
     volume |-> AsSeries(volume)]

\* the indicator columns calculate_indicators assigns, lines 223-246
IndicatorColumns(d, c) ==
    EwmFrame(d.close, c.ema_period, c.macd_fast, c.macd_slow, c.macd_signal) @@
    RollingFrame(calculate_bollinger_bands(d.close, c.bb_period, c.bb_std),
                 d.high, d.low, d.close, d.volume, c.atr_period, c.vol_period)

\* calculate_indicators without line 220: the columns are assigned to the
\* caller's DataFrame
calculate_indicators_InPlace(d, c) ==
    [df |-> IndicatorColumns(d, c) @@ d, ret |-> IndicatorColumns(d, c) @@ d]

\* calculate_indicators(df, ...): df = df.copy(), the columns are assigned to
\* the copy (an assigned column replaces one of the same name) and the copy
\* is returned; df is the caller's DataFrame after the call
calculate_indicators(d, c) ==
    [df |-> d, ret |-> IndicatorColumns(d, c) @@ d]

\* the periods of the combinations
ReusePeriods ==
    {EwmSpans @@ [bb_period |-> p, bb_std |-> 2, atr_period |-> p, vol_period |-> p] :
        p \in PeriodVals}

\* the optimizer's loop before its first combination: fetched is the
\* DataFrame object fetch_data_fn hands out, fresh its content as fetched
InitReuse ==
    /\ pc = "enrich"
    /\ call \in {[fetched |-> Fetched(b, Periodic(<<1, 1, 2>>, IndicatorBars)),
                  fresh |-> Fetched(b, Periodic(<<1, 1, 2>>, IndicatorBars)),
                  combos |-> cs, enriched |-> <<>>] :
                   b \in [1..IndicatorBars -> BarVals],
                   cs \in [1..ReuseCombos -> ReusePeriods]}
    /\ df = LazyColumns /\ df_len = IndicatorBars
    /\ cfg = NoneObj /\ max_lookback = 0 /\ i = 0 /\ row = BlankRow
    /\ result = NoneObj /\ rerun = NoneObj
    /\ Bind(NewStrategy)
    /\ NoSearch

\* what the call for the next combination returns and leaves
Enriching == calculate_indicators(call.fetched, call.combos[Len(call.enriched) + 1])

\* optimizer.py 136-146: df = fetch_data_fn(...); df = calculate_indicators(df, ...)
EnrichForCombo ==
    /\ pc = "enrich"
    /\ Len(call.enriched) < Len(call.combos)
    /\ call' = [call EXCEPT !.fetched = Enriching.df,
                            !.enriched = Append(@, Enriching.ret)]
    /\ UNCHANGED <<pc, cfg, max_lookback, df, df_len, i, row, in_position, position,
                   pos, trades, equity_curve, current_equity, signal, strategy,
                   result, rerun, optimizer_vars>>

\* the calls of calculate_indicators on one fetched DataFrame, and
\* executions of run
SpecReuse ==
    (InitReuse \/ Init) /\ [][EnrichForCombo \/ StepFlat \/ StepHeld \/ Finish]_vars

----------------------------------------------------------------------------
(* Properties of the DataFrame handed to calculate_indicators and run *)

\* the columns of the bars
BarColumns == {"low", "high", "close", "volume"}

\* C35: calculate_indicators and run leave the DataFrame they are given
\* unchanged.  The call returns a new DataFrame: the bars' columns with the
\* same values, and the indicator columns; the caller's DataFrame keeps its
\* columns and values, so the enriched DataFrame of a later combination on
\* the same fetched object is the one freshly fetched data gives; run
\* assigns nothing to df
C35_BarsUnchanged ==
    [][/\ df' = df /\ df_len' = df_len
       /\ pc = "enrich" =>
             /\ call'.fetched = call.fetched
             /\ call'.fetched = call.fresh
             /\ DOMAIN call'.fetched = BarColumns
             /\ Len(call'.enriched) = Len(call.enriched) + 1
             /\ LET ret == call'.enriched[Len(call'.enriched)]
                    c == call.combos[Len(call'.enriched)]
                IN  /\ \A col \in BarColumns : ret[col] = call.fresh[col]
                    /\ DOMAIN ret # BarColumns
                    /\ ret = IndicatorColumns(call.fresh, c) @@ call.fresh]_vars

\* C35 witness: two combinations with different periods have been enriched
\* from the same fetched DataFrame, and their enriched DataFrames differ
C35_Witness ==
    /\ pc = "enrich"
    /\ Len(call.enriched) = 2
    /\ call.combos[1] # call.combos[2]
    /\ call.enriched[1] # call.enriched[2]
    /\ call.fetched = call.fresh

----------------------------------------------------------------------------
(* detect_qml_bear on a column of highs and detect_qml_bull on the column   *)
(* of the negated values, with the same evaluation index, order and         *)
(* recency.  Each call records its local extrema beside the level returned. *)

\* the column of the negated values
Negated(h) == [k \in 1..Len(h) |-> 0 - h[k]]

\* the arguments of the two calls; idx is the last bar
InitMirror ==
    /\ pc = "detect_qml_bull"
    /\ df \in {[low |-> Negated(h), high |-> h] : h \in [1..DetectBars -> LowVals]}
    /\ df_len = DetectBars
    /\ call \in {[idx |-> DetectBars - 1, order |-> o, recency |-> r,
                  bull |-> NoneObj, bear |-> NoneObj] :
                   o \in DetectOrders, r \in DetectRecencies}
    /\ cfg = NoneObj /\ max_lookback = 0 /\ i = 0 /\ row = BlankRow
    /\ result = NoneObj /\ rerun = NoneObj
    /\ Bind(NewStrategy)
    /\ NoSearch

\* detect_qml_bull, lines 35-38: local_min_idx
local_min_idx(df_low, idx, order) ==
    argrelextrema(SubSeq(df_low, 1, idx + 1), "less", order)

\* detect_qml_bear, lines 83-86: local_max_idx
local_max_idx(df_high, idx, order) ==
    argrelextrema(SubSeq(df_high, 1, idx + 1), "greater", order)

\* the call detect_qml_bull(df, idx, order, recency)
MirrorQmlBull ==
    /\ pc = "detect_qml_bull"
    /\ call' = [call EXCEPT
                  !.bull = [local_idx |-> local_min_idx(df.low, call.idx, call.order),
                            level |-> detect_qml_bull(df.low, call.idx, call.order,
                                                      call.recency)]]
    /\ pc' = "detect_qml_bear"
    /\ UNCHANGED <<cfg, max_lookback, df, df_len, i, row, in_position, position,
                   pos, trades, equity_curve, current_equity, signal, strategy, result,
                   rerun, optimizer_vars>>

\* the call detect_qml_bear(df, idx, order, recency)
MirrorQmlBear ==
    /\ pc = "detect_qml_bear"
    /\ call' = [call EXCEPT
                  !.bear = [local_idx |-> local_max_idx(df.high, call.idx, call.order),
                            level |-> detect_qml_bear(df.high, call.idx, call.order,
                                                      call.recency)]]
    /\ pc' = "mirrored"
    /\ UNCHANGED <<cfg, max_lookback, df, df_len, i, row, in_position, position,
                   pos, trades, equity_curve, current_equity, signal, strategy, result,
                   rerun, optimizer_vars>>

NextMirror == MirrorQmlBull \/ MirrorQmlBear

SpecMirror == InitMirror /\ [][NextMirror]_vars

----------------------------------------------------------------------------
(* Properties of the local extrema and of the two detectors *)

\* the bars of prices within `order` places of bar k, k left out
Window(prices, k, order) ==
    {j \in 0..(Len(prices) - 1) : j # k /\ j - k <= order /\ k - j <= order}

\* the local maxima of highs: the bars with a bar before and a bar after
\* them that are strictly higher than every bar of their window
LocalMaxima(highs, order) ==
    {k \in 1..(Len(highs) - 2) :
        \A j \in Window(highs, k, order) : highs[k + 1] > highs[j + 1]}

\* no bar of the set m has a bar of its window at the same price
NoneLevel(prices, m, order) ==
    \A k \in m : \A j \in Window(prices, k, order) : prices[j + 1] # prices[k + 1]

\* C36: the local minima (maxima) the detector takes from the evaluated
\* prefix are exactly the bars strictly lower (higher) than every bar within
\* `order` places on both sides; a bar level with a bar of its window is not
\* among them; with fewer than three extrema the detector returns None
C36_StrictExtrema ==
    /\ pc \in {"detect_qml_bear", "mirrored"} =>
          LET lows == SubSeq(df.low, 1, call.idx + 1)
          IN  /\ call.bull.local_idx = LocalMinima(lows, call.order)
              /\ NoneLevel(lows, call.bull.local_idx, call.order)
              /\ Cardinality(call.bull.local_idx) < 3 => call.bull.level = None
    /\ pc = "mirrored" =>
          LET highs == SubSeq(df.high, 1, call.idx + 1)
          IN  /\ call.bear.local_idx = LocalMaxima(highs, call.order)
              /\ NoneLevel(highs, call.bear.local_idx, call.order)
              /\ Cardinality(call.bear.local_idx) < 3 => call.bear.level = None

\* C36 witness: the highs hold a bar that is highest of its window but level
\* with a bar of it, the detector found two maxima and returned None
C36_Witness ==
    /\ pc = "mirrored"
    /\ Cardinality(call.bear.local_idx) = 2
    /\ call.bear.level = None
    /\ \E k \in 1..(DetectBars - 2) :
          /\ k \notin call.bear.local_idx
          /\ \A j \in Window(df.high, k, call.order) : df.high[k + 1] >= df.high[j + 1]

\* the level of the mirrored column
Mirrored(level) == IF level = None THEN None ELSE 0 - level

\* C37: detect_qml_bear on highs h returns level v exactly when
\* detect_qml_bull on lows -h returns -v, and returns None exactly when
\* detect_qml_bull returns None
C37_BearMirrorsBull ==
    pc = "mirrored" =>
        /\ call.bear.level = Mirrored(call.bull.level)
        /\ call.bull.level = Mirrored(call.bear.level)

\* C37 witness: detect_qml_bear returned the level of a swept high, with
\* order 2
C37_Witness ==
    /\ pc = "mirrored"
    /\ call.order = 2
    /\ call.bear.level # None
    /\ call.bull.level = 0 - call.bear.level

----------------------------------------------------------------------------
(* bot/trader.py: TradingBot.start() as the task of an asyncio event loop.  *)
(* pc is the await at which start() is suspended; one action runs start()   *)
(* from that await to the next one.  call holds the bot's fields, the       *)
(* locals of the signal check under way and what the event loop has been    *)
(* asked to do.  The exchange's answers are inputs.  The event loop runs    *)
(* what is ready in the order it became ready: a task made by create_task   *)
(* runs on the loop's next pass, so start() resumes at most once between    *)
(* the creation of a stop() task and its execution.                         *)

\* signal checks in one execution of start()
MaxChecks == 2

\* SIGINT / SIGTERM deliveries in one execution of start()
MaxSignals == 2

\* the answers of the exchange
ResponseCodes == {0, 1}
PositionData == {<<>>, <<0>>, <<1>>}
MarkPrices == {None, 10}
Balances == {0, 1, 300}
KlineAtrs == {1, 3}

\* a request either returns or raises (_request, lines 122-133)
AwaitOutcomes == {"returns", "raises"}

\* the locals of _check_and_trade before its first statement; orders counts
\* the calls of place_market_order
BlankCheck ==
    [positions |-> NoneObj, in_position |-> FALSE, signal |-> NoneObj,
     current_price |-> None, balance |-> 0, quantity |-> 0, orders |-> 0,
     order_resp |-> NoneObj]

\* TradingBot.__init__, and start() up to its first await
NewBot ==
    [_running |-> TRUE, _position |-> NoneObj, check |-> BlankCheck, checks |-> 0,
     signals |-> 0, requested |-> FALSE, stop_tasks |-> 0, resumed |-> FALSE,
     closed |-> 0, error |-> FALSE]

InitBot ==
    /\ pc = "get_server_time"
    /\ call = NewBot
    /\ cfg = BaseConfig
    /\ df = LazyColumns /\ df_len = 0
    /\ max_lookback = 0 /\ i = 0 /\ row = BlankRow
    /\ result = NoneObj /\ rerun = NoneObj
    /\ Bind(NewStrategy)
    /\ NoSearch

\* BingxClient.has_open_position on the answer of get_positions
has_open_position(data) ==
    /\ data.code = 0
    /\ data.data # <<>>
    /\ \E k \in 1..Len(data.data) : data.data[k] # 0

\* round(n / d) of Python: to the nearest integer, a tie to the even one
Round(n, d) ==
    LET q == n \div d
        r == n % d
    IN  IF 2 * r < d THEN q
        ELSE IF 2 * r > d THEN q + 1
        ELSE IF q % 2 = 0 THEN q ELSE q + 1

\* BingxClient.calculate_quantity with risk_percent 0.01, in thousandths:
\* a price without decimal places has its quantity rounded to three
calculate_quantity(balance, entry_price, stop_loss) ==
    LET risk_per_unit == Abs(entry_price - stop_loss)
    IN  IF risk_per_unit = 0 THEN 0 ELSE Round(10 * balance, risk_per_unit)

\* start() leaves its try block, lines 105-106: client.close() is called
Finally(b, error) ==
    [pc |-> "close", call |-> [b EXCEPT !.closed = @ + 1, !.error = error]]

\* _main_loop at `while self._running`, lines 125-142, up to the next await:
\* now is a time at which _should_check_signal is true or one at which it
\* is false
LoopTop(b) ==
    IF ~b._running THEN {Finally(b, FALSE)}
    ELSE {[pc |-> "sleep", call |-> b]} \union
         (IF b.checks < MaxChecks
          THEN {[pc |-> "get_klines",
                 call |-> [b EXCEPT !.checks = @ + 1, !.check = BlankCheck]]}
          ELSE {})

\* _check_and_trade has returned or raised: lines 135-139
CheckOver(b) == [pc |-> "sleep", call |-> b]

BotUnchanged ==
    UNCHANGED <<cfg, max_lookback, df, df_len, i, row, in_position, position,
                pos, trades, equity_curve, current_equity, signal, strategy,
                result, rerun, optimizer_vars>>

\* start() resumes from its await and runs to `next`; resumed records that
\* it did so with a stop() task waiting
Resume(next) ==
    /\ ~(call.stop_tasks > 0 /\ call.resumed)
    /\ pc' = next.pc
    /\ call' = [next.call EXCEPT !.resumed = call.stop_tasks > 0]
    /\ BotUnchanged

\* lines 92-96
GetServerTime ==
    /\ pc = "get_server_time"
    /\ \E outcome \in AwaitOutcomes :
          Resume(IF outcome = "raises" THEN Finally(call, TRUE)
                 ELSE [pc |-> "set_leverage", call |-> call])

\* lines 96-99: _set_leverage catches what set_leverage raises
SetLeverage ==
    /\ pc = "set_leverage"
    /\ \E next \in LoopTop(call) : Resume(next)

\* lines 163-178
GetKlines ==
    /\ pc = "get_klines"
    /\ \E outcome \in AwaitOutcomes :
          Resume(IF outcome = "raises" THEN CheckOver(call)
                 ELSE [pc |-> "has_open_position", call |-> call])

\* _check_and_trade from the answer of has_open_position, lines 178-195
AfterPositions(b, data, sig) ==
    LET c == [b.check EXCEPT !.positions = data,
                             !.in_position = has_open_position(data),
                             !.signal = sig]
    IN  IF c.in_position \/ sig = NoneObj
        THEN CheckOver([b EXCEPT !.check = c])
        ELSE [pc |-> "get_mark_price", call |-> [b EXCEPT !.check = c]]

HasOpenPosition ==
    /\ pc = "has_open_position"
    /\ \E outcome \in AwaitOutcomes, code \in ResponseCodes, data \in PositionData,
          sig \in {NoneObj, [side |-> "long"], [side |-> "short"]} :
          Resume(IF outcome = "raises" THEN CheckOver(call)
                 ELSE AfterPositions(call, [code |-> code, data |-> data], sig))

\* lines 195-200; get_mark_price returns None where its request raises
GetMarkPrice ==
    /\ pc = "get_mark_price"
    /\ \E price \in MarkPrices :
          Resume(IF price = None THEN CheckOver(call)
                 ELSE [pc |-> "get_available_balance",
                       call |-> [call EXCEPT !.check.current_price = price]])

\* lines 200-235
AfterBalance(b, balance, atr) ==
    LET sltp == calculate_sl_tp(cfg, strategy, b.check.current_price,
                                b.check.signal.side, atr)
        quantity == calculate_quantity(balance, b.check.current_price, sltp.sl)
        c == [b.check EXCEPT !.balance = balance]
    IN  IF balance <= 0 THEN CheckOver([b EXCEPT !.check = c])
        ELSE IF quantity <= 0
        THEN CheckOver([b EXCEPT !.check = [c EXCEPT !.quantity = quantity]])
        ELSE [pc |-> "place_market_order",
              call |-> [b EXCEPT
                          !.check = [c EXCEPT !.quantity = quantity,
                                              !.orders = @ + 1]]]

GetAvailableBalance ==
    /\ pc = "get_available_balance"
    /\ \E outcome \in AwaitOutcomes, balance \in Balances, atr \in KlineAtrs :
          Resume(IF outcome = "raises" THEN CheckOver(call)
                 ELSE AfterBalance(call, balance, atr))

\* lines 237-255
AfterOrder(b, order_resp) ==
    LET c == [b.check EXCEPT !.order_resp = order_resp]
    IN  IF order_resp.code = 0
        THEN CheckOver([b EXCEPT !.check = c,
                                 !._position = [side |-> c.signal.side,
                                                entry |-> c.current_price,
                                                qty |-> c.quantity]])
        ELSE CheckOver([b EXCEPT !.check = c])

PlaceMarketOrder ==
    /\ pc = "place_market_order"
    /\ \E outcome \in AwaitOutcomes, code \in ResponseCodes :
          Resume(IF outcome = "raises" THEN CheckOver(call)
                 ELSE AfterOrder(call, [code |-> code]))

\* asyncio.sleep(60) / asyncio.sleep(30) is over, lines 139-142
Sleep ==
    /\ pc = "sleep"
    /\ \E next \in LoopTop(call) : Resume(next)

\* client.close() is over, lines 101-107
Close ==
    /\ pc = "close"
    /\ Resume([pc |-> IF call.error THEN "raised" ELSE "returned", call |-> call])

\* start() is suspended at an await
Suspended == pc \notin {"returned", "raised"}

\* line 88, the handler of SIGINT / SIGTERM: asyncio.create_task(self.stop())
SignalHandler ==
    /\ Suspended
    /\ call.signals < MaxSignals
    /\ call' = [call EXCEPT !.signals = @ + 1, !.requested = TRUE,
                            !.stop_tasks = @ + 1,
                            !.resumed = call.stop_tasks > 0 /\ @]
    /\ UNCHANGED pc
    /\ BotUnchanged

\* stop(), lines 109-112, run by the event loop as a task of its own
Stop ==
    /\ Suspended
    /\ call.stop_tasks > 0
    /\ call' = [call EXCEPT !.stop_tasks = @ - 1, !._running = FALSE]
    /\ UNCHANGED pc
    /\ BotUnchanged

StartStep ==
    \/ GetServerTime \/ SetLeverage \/ GetKlines \/ HasOpenPosition
    \/ GetMarkPrice \/ GetAvailableBalance \/ PlaceMarketOrder \/ Sleep \/ Close

NextBot == StartStep \/ SignalHandler \/ Stop

SpecBot == InitBot /\ [][NextBot]_vars

\* every await of start() ends (a request returns or raises, a sleep is
\* over), and the event loop runs the tasks it has created
SpecBotFair == SpecBot /\ WF_vars(StartStep) /\ WF_vars(Stop)

----------------------------------------------------------------------------
(* Properties of TradingBot *)

\* the step calls place_market_order
PlacesOrder == call'.check.orders = call.check.orders + 1

\* C38: in one signal check place_market_order is called at most once, and
\* only when the exchange reported no open position, generate_signal
\* returned a Signal, a mark price was obtained, the available balance is
\* positive and the computed quantity is positive; _position is set only
\* after an order response with code 0
C38_OrderOnlyWhenFlat ==
    [][/\ call'.check.orders <= 1
       /\ PlacesOrder =>
             LET c == call'.check
             IN  /\ c.positions.code = 0
                 /\ \A k \in 1..Len(c.positions.data) : c.positions.data[k] = 0
                 /\ c.signal # NoneObj
                 /\ c.current_price # None
                 /\ c.balance > 0
                 /\ c.quantity > 0
       /\ call'._position # call._position =>
             /\ pc = "place_market_order"
             /\ call'.check.order_resp.code = 0]_vars

\* the awaits of _check_and_trade
CheckAwaits ==
    {"get_klines", "has_open_position", "get_mark_price", "get_available_balance",
     "place_market_order"}

\* start() has ended
Ended == pc \in {"returned", "raised"}

\* C39: after stop() is requested (SIGINT / SIGTERM) the main loop starts no
\* further signal check once its current check or sleep is over, start()
\* then ends, and the client is closed exactly once; the client is also
\* closed when start() ends with an error, and an error inside a signal
\* check does not end the loop
C39_GracefulShutdown ==
    /\ [][/\ (call.requested /\ pc \in CheckAwaits \union {"sleep"}) =>
                 call'.checks = call.checks
          /\ pc \in CheckAwaits => pc' \in CheckAwaits \union {"sleep"}]_vars
    /\ (call.requested ~> Ended)
    /\ [](call.closed <= 1)
    /\ [](Ended => call.closed = 1)

====
